---- MODULE Spec2Model ----
(***************************************************************************)
(* A model of the cage topology builder of stk                             *)
(* (src/stk/molecular/topologies/cage/base.py): the Vertex/Edge graph,     *)
(* CageTopology.place_mols / NoLinkerCageTopology.place_mols, the          *)
(* atom-to-position matcher pair_bonders_with_positions and the            *)
(* atom-to-atom matcher join_mols.                                         *)
(*                                                                         *)
(* Coordinates are integer triples.  Every distance the code computes is   *)
(* only ever compared with other distances (sorted), so a distance is      *)
(* represented by its square, which has the same order and the same ties.  *)
(* The rigid transform computed by place_mol (rdkit / numpy floating       *)
(* point) is not computed: the coordinates of the placed bonder atoms are  *)
(* drawn from a finite grid.                                               *)
(***************************************************************************)
EXTENDS Integers, Sequences, FiniteSets, TLC

VARIABLES
    topology,             \* the topology object: class, positions_A, positions_B, alignments, bb_assignments
    coord,                \* Vertex.coord, per position
    connected,            \* Vertex.connected, per position (a list of positions)
    bonder_ids,           \* Vertex.bonder_ids, per position (a list of atom ids)
    atom_position_pairs,  \* Vertex.atom_position_pairs, per position (a list of <<atom id, position>>)
    distances,            \* Vertex.distances, per position (a list of <<distance, atom1, atom2>>)
    macro_mol,            \* the macromolecule being built: building_blocks, mol, bonds, bonds_made, bb_counter;
                          \* position_matrix (of each building block), ipositions (the local of place_mols);
                          \* history: entered (the matrices when place_mols was entered), placements
    atom_coords,          \* macro_mol.atom_coords, for the bonder atoms of macro_mol.mol
    scale,                \* the local `scale` of place_mols
    bb_map,               \* the local `bb_map` of CageTopology.place_mols
    lk_map,               \* the local `lk_map` of CageTopology.place_mols
    i,                    \* the loop index of the running place_mols loop (0-based)
    pc,                   \* where the build is
    error,                \* the exception that ended the build, or NoError
    log,                  \* history: the build's events in the order the code performs them
    calls,                \* history: <<position, vertex>> for every atom_position_pair join_mols computed distances for
    previous,             \* history: what the build before this one left, or None
    objects,              \* the Atom, Bond, Vertex and BuildingBlock objects of the newer API, by reference
    result                \* the value the last call on those objects returned

vars == <<topology, coord, connected, bonder_ids, atom_position_pairs, distances,
          macro_mol, atom_coords, scale, bb_map, lk_map, i, pc, error, log, calls,
         previous, objects, result>>

\* The largest coordinate of the grid the atoms of the matcher harness sit on.
MaxCoord == 2

\* An optional value: None, or Some(x).
None == <<>>
Some(x) == <<x>>
NoError == [type |-> "None", args |-> <<>>]

----------------------------------------------------------------------------
(* Geometry *)

Grid == {<<0, 0, z>> : z \in 0..MaxCoord}

\* position.coord*scale
Scaled(c, s) == <<c[1] * s, c[2] * s, c[3] * s>>

\* scipy.spatial.distance.euclidean, squared (see the module comment).
euclidean(p, q) ==
    (p[1] - q[1]) * (p[1] - q[1]) + (p[2] - q[2]) * (p[2] - q[2]) + (p[3] - q[3]) * (p[3] - q[3])

\* macro_mol.atom_distance(atom1_id, atom2_id)
atom_distance(a1, a2) == euclidean(atom_coords[a1], atom_coords[a2])

----------------------------------------------------------------------------
(* Sequences *)

Range(s) == {s[k] : k \in DOMAIN s}

Min(a, b) == IF a <= b THEN a ELSE b

RECURSIVE Flatten(_)
\* The concatenation of a sequence of sequences.
Flatten(ss) == IF ss = <<>> THEN <<>> ELSE Head(ss) \o Flatten(Tail(ss))

\* list.sort(key=lambda x: x[0]): x goes after every element whose key is <= its own.
RECURSIVE InsertByKey(_, _)
InsertByKey(x, s) ==
    IF s = <<>> THEN <<x>>
    ELSE IF Head(s)[1] <= x[1] THEN <<Head(s)>> \o InsertByKey(x, Tail(s))
         ELSE <<x>> \o s

RECURSIVE SortByKeyFrom(_, _)
SortByKeyFrom(s, acc) ==
    IF s = <<>> THEN acc ELSE SortByKeyFrom(Tail(s), InsertByKey(Head(s), acc))

\* distances.sort(key=lambda x: x[0]): a stable sort on the distance alone.
SortByKey(s) == SortByKeyFrom(s, <<>>)

\* Python's order on the tuples (distance, atom1_id, atom2_id).
TupleLeq(x, y) ==
    \/ x[1] < y[1]
    \/ x[1] = y[1] /\ x[2] < y[2]
    \/ x[1] = y[1] /\ x[2] = y[2] /\ x[3] <= y[3]

RECURSIVE InsertTuple(_, _)
InsertTuple(x, s) ==
    IF s = <<>> THEN <<x>>
    ELSE IF TupleLeq(Head(s), x) THEN <<Head(s)>> \o InsertTuple(x, Tail(s))
         ELSE <<x>> \o s

RECURSIVE SortedFrom(_, _)
SortedFrom(s, acc) ==
    IF s = <<>> THEN acc ELSE SortedFrom(Tail(s), InsertTuple(Head(s), acc))

\* sorted(position.distances)
sorted(s) == SortedFrom(s, <<>>)

----------------------------------------------------------------------------
(* CageTopology.pair_bonders_with_positions *)

\* The first loop: one candidate per bonder atom and connected position, in loop order.
PairCandidates(vertex_bonder_ids, coords, vertex_scale, vertex) ==
    Flatten([b \in DOMAIN vertex_bonder_ids |->
               [p \in DOMAIN connected[vertex] |->
                  <<euclidean(coords[vertex_bonder_ids[b]],
                              Scaled(coord[connected[vertex][p]], vertex_scale)),
                    vertex_bonder_ids[b],
                    connected[vertex][p]>>]])

PairSkip_NoPositionCheck(bonder_id, pos, paired_ids, paired_pos) ==
    bonder_id \in paired_ids

\* The guard of the second loop: the candidate is skipped when this holds.
PairSkip(bonder_id, pos, paired_ids, paired_pos) ==
    bonder_id \in paired_ids \/ pos \in paired_pos

RECURSIVE PairLoop(_, _, _, _)
\* The second loop, over the sorted candidates.
PairLoop(cands, paired_ids, paired_pos, pairs) ==
    IF cands = <<>> THEN pairs
    ELSE LET bonder_id == Head(cands)[2]
             pos == Head(cands)[3]
         IN  IF PairSkip(bonder_id, pos, paired_ids, paired_pos)
             THEN PairLoop(Tail(cands), paired_ids, paired_pos, pairs)
             ELSE PairLoop(Tail(cands), paired_ids \cup {bonder_id},
                           paired_pos \cup {pos}, Append(pairs, <<bonder_id, pos>>))

pair_bonders_with_positions_NoReset(vertex_bonder_ids, coords, vertex_scale, vertex) ==
    atom_position_pairs[vertex]
        \o PairLoop(SortByKey(PairCandidates(vertex_bonder_ids, coords, vertex_scale, vertex)),
                    {}, {}, <<>>)

\* The value pair_bonders_with_positions leaves in vertex.atom_position_pairs,
\* given vertex.bonder_ids, the coordinates of the atoms and the scale.
pair_bonders_with_positions(vertex_bonder_ids, coords, vertex_scale, vertex) ==
    PairLoop(SortByKey(PairCandidates(vertex_bonder_ids, coords, vertex_scale, vertex)),
             {}, {}, <<>>)

----------------------------------------------------------------------------
(* CageTopology.join_mols *)

\* editable_mol.AddBond(atom1_id, atom2_id, bond_type): an rdkit bond carries no
\* periodicity, which is the (0, 0, 0) default of Bond.__init__.
AddBond(atom1_id, atom2_id) ==
    [atom1 |-> atom1_id, atom2 |-> atom2_id, periodicity |-> <<0, 0, 0>>]

JoinCandidates_OwnPosition(position) ==
    Flatten([k \in DOMAIN atom_position_pairs[position] |->
               LET atom_id == atom_position_pairs[position][k][1]
               IN  [j \in DOMAIN bonder_ids[position] |->
                      <<atom_distance(atom_id, bonder_ids[position][j]),
                        atom_id, bonder_ids[position][j]>>]])

\* What the first loop appends to position.distances: for every
\* (atom_id, vertex) of position.atom_position_pairs, one entry per bonder atom of vertex.
JoinCandidates(position) ==
    Flatten([k \in DOMAIN atom_position_pairs[position] |->
               LET atom_id == atom_position_pairs[position][k][1]
                   vertex == atom_position_pairs[position][k][2]
               IN  [j \in DOMAIN bonder_ids[vertex] |->
                      <<atom_distance(atom_id, bonder_ids[vertex][j]),
                        atom_id, bonder_ids[vertex][j]>>]])

JoinDistances_OnPairedVertex(position) ==
    distances[position]
        \o Flatten([k \in DOMAIN topology.positions_A |->
                       SelectSeq(JoinCandidates(topology.positions_A[k]),
                                 LAMBDA c : c[3] \in Range(bonder_ids[position]))])

\* position.distances after the first loop.
JoinDistances(position) ==
    IF position \in Range(topology.positions_A)
    THEN distances[position] \o JoinCandidates(position)
    ELSE distances[position]

\* The <<position, vertex>> the first loop computes candidate distances for.
JoinCalls ==
    Flatten([k \in DOMAIN topology.positions_A |->
               [j \in DOMAIN atom_position_pairs[topology.positions_A[k]] |->
                  <<topology.positions_A[k],
                    atom_position_pairs[topology.positions_A[k]][j][2]>>]])

JoinSkip_Atom1Only(atom1_id, atom2_id, paired) ==
    atom1_id \in paired

JoinSkip_Atom2Only(atom1_id, atom2_id, paired) ==
    atom2_id \in paired

JoinSkip_Never(atom1_id, atom2_id, paired) == FALSE

\* The guard of the second loop: the candidate is skipped when this holds.
JoinSkip(atom1_id, atom2_id, paired) ==
    atom1_id \in paired \/ atom2_id \in paired

RECURSIVE JoinLoop(_, _, _)
\* The second loop: `paired` is shared by all positions, so the loop runs over
\* sorted(position.distances) of every position of positions_A, one after the other.
JoinLoop(cands, paired, bonds) ==
    IF cands = <<>> THEN bonds
    ELSE LET atom1_id == Head(cands)[2]
             atom2_id == Head(cands)[3]
         IN  IF JoinSkip(atom1_id, atom2_id, paired)
             THEN JoinLoop(Tail(cands), paired, bonds)
             ELSE JoinLoop(Tail(cands), paired \cup {atom1_id, atom2_id},
                           Append(bonds, AddBond(atom1_id, atom2_id)))

\* The bonds join_mols adds, in the order it adds them.
JoinBonds ==
    JoinLoop(Flatten([k \in DOMAIN topology.positions_A |->
                        sorted(JoinDistances(topology.positions_A[k]))]),
             {}, <<>>)

\* StoichiometryMismatchWarning: the atoms join_mols and
\* pair_bonders_with_positions report as left without a bond.  Neither holds a
\* statement that warns, logs or raises.
reported == {}

\* join_mols, whole: it runs on a macromolecule whose blocks are placed (it
\* edits macro_mol.mol and reads the bonder ids and pairings of the positions).
join_mols ==
    /\ UNCHANGED <<previous, objects, result>>
    /\ pc \in {"placed", "harness"}
    /\ distances' = [p \in DOMAIN distances |-> JoinDistances(p)]
    /\ calls' = calls \o JoinCalls
    /\ macro_mol' = [macro_mol EXCEPT !.bonds = @ \o JoinBonds,
                                      !.bonds_made = Len(JoinBonds)]
    /\ log' = log \o <<<<"distances">>, <<"bonds">>, <<"GetMol">>>>
    /\ pc' = "joined"
    /\ UNCHANGED <<topology, coord, connected, bonder_ids, atom_position_pairs,
                   atom_coords, scale, bb_map, lk_map, i, error>>

----------------------------------------------------------------------------
(* The matcher harness: pair_bonders_with_positions and join_mols called on   *)
(* positions whose bonder atoms and coordinates are drawn from bounded sets.  *)

Z(z) == <<0, 0, z>>

\* Two vertices joined by one connection (NoLinkerCageTopology.connect), and a
\* row of three.
HarnessNoLinker ==
    {[class |-> "NoLinkerCageTopology", positions_A |-> <<1, 2>>, positions_B |-> <<>>,
      coord |-> <<Z(0), Z(1)>>, connected |-> << <<2>>, <<1>> >>, scale |-> 2, n_bonders |-> n]
       : n \in {<<2, 2>>, <<2, 1>>, <<1, 1>>}}
    \cup
    {[class |-> "NoLinkerCageTopology", positions_A |-> <<1, 2>>, positions_B |-> <<>>,
      coord |-> <<Z(0), Z(1)>>, connected |-> << <<2, 2>>, <<1, 1>> >>, scale |-> 2,
      n_bonders |-> <<2, 2>>]}
    \cup
    {[class |-> "NoLinkerCageTopology", positions_A |-> <<1, 2, 3>>, positions_B |-> <<>>,
      coord |-> <<Z(0), Z(1), Z(2)>>, connected |-> << <<2>>, <<1, 3>>, <<2>> >>, scale |-> 1,
      n_bonders |-> n]
       : n \in {<<1, 2, 1>>, <<2, 2, 2>>}}

\* Two vertices joined by one Edge: the edge is a position of positions_B.
HarnessLinker ==
    {[class |-> "CageTopology", positions_A |-> <<1, 2>>, positions_B |-> <<3>>,
      coord |-> <<Z(0), Z(2), Z(1)>>, connected |-> << <<3>>, <<3>>, <<1, 2>> >>, scale |-> 1,
      n_bonders |-> n]
       : n \in {<<1, 1, 2>>, <<1, 1, 1>>, <<2, 2, 2>>}}

HarnessScenarios == HarnessNoLinker \cup HarnessLinker

RECURSIVE Sum(_)
Sum(s) == IF s = <<>> THEN 0 ELSE Head(s) + Sum(Tail(s))

\* Atom ids are those of the combined molecule: contiguous, in placement order.
BonderLayout(counts) ==
    [p \in DOMAIN counts |->
       [k \in 1..counts[p] |-> Sum(SubSeq(counts, 1, p - 1)) + k - 1]]

EmptyMol == [building_blocks |-> <<>>, mol |-> <<>>, bonds |-> <<>>,
             bonds_made |-> 0, bb_counter |-> <<>>]

HarnessInit ==
    \E sc \in HarnessScenarios :
        /\ topology = [class |-> sc.class, positions_A |-> sc.positions_A,
                       positions_B |-> sc.positions_B, bb_assignments |-> None,
                       is_edge |-> [p \in DOMAIN sc.coord |-> p \in Range(sc.positions_B)],
                       custom_position |-> [p \in DOMAIN sc.coord |-> p \in Range(sc.positions_A)]]
        /\ coord = sc.coord
        /\ connected = sc.connected
        /\ bonder_ids = BonderLayout(sc.n_bonders)
        /\ atom_position_pairs = [p \in DOMAIN sc.coord |-> <<>>]
        /\ distances = [p \in DOMAIN sc.coord |-> <<>>]
        /\ macro_mol = EmptyMol
        /\ atom_coords \in [0..(Sum(sc.n_bonders) - 1) -> Grid]
        /\ scale = sc.scale
        /\ bb_map = <<>>
        /\ lk_map = <<>>
        /\ i = 0
        /\ pc = "harness"
        /\ error = NoError
        /\ log = <<>>
        /\ calls = <<>>
        /\ previous = None
        /\ objects = <<>>
        /\ result = None

\* self.pair_bonders_with_positions(scale, macro_mol, vertex), as place_mols calls
\* it: on a position of positions_A.
PairCall(vertex) ==
    /\ UNCHANGED <<previous, objects, result>>
    /\ pc = "harness"
    /\ <<"pair", vertex>> \notin Range(log)
    /\ atom_position_pairs' =
           [atom_position_pairs EXCEPT
               ![vertex] = pair_bonders_with_positions(bonder_ids[vertex], atom_coords,
                                                       scale, vertex)]
    /\ log' = Append(log, <<"pair", vertex>>)
    /\ UNCHANGED <<topology, coord, connected, bonder_ids, distances, macro_mol,
                   atom_coords, scale, bb_map, lk_map, i, pc, error, calls>>

HarnessNext ==
    \/ \E vertex \in Range(topology.positions_A) : PairCall(vertex)
    \/ join_mols

SpecHarness == HarnessInit /\ [][HarnessNext]_vars

----------------------------------------------------------------------------
(* Building blocks and the molecule being built *)

\* A building block: its number of functional groups
\* (len(bb.functional_group_atoms())), its number of atoms, the indices of its
\* atoms tagged 'bonder', and its max_diameter()[0].
Tri == [fgs |-> 3, natoms |-> 4, bonders |-> <<0, 1, 2>>, diameter |-> 2]
Di == [fgs |-> 2, natoms |-> 3, bonders |-> <<0, 2>>, diameter |-> 1]
Mono == [fgs |-> 1, natoms |-> 2, bonders |-> <<1>>, diameter |-> 1]
Tetra == [fgs |-> 4, natoms |-> 5, bonders |-> <<0, 1, 2, 3>>, diameter |-> 2]
TetraB == [fgs |-> 4, natoms |-> 6, bonders |-> <<0, 2, 3, 5>>, diameter |-> 2]

\* macro_mol.building_blocks[bb_index], with Python's 0-based index.
BuildingBlock(bb_index) == macro_mol.building_blocks[bb_index + 1]

BlockIndexes == {k - 1 : k \in DOMAIN macro_mol.building_blocks}

Max(S) == CHOOSE x \in S : \A y \in S : y <= x

\* The number of atoms of a molecule made of the fragments `mol`.
NumAtoms(mol) == Sum([k \in DOMAIN mol |-> BuildingBlock(mol[k].bb).natoms])

\* rdkit.CombineMols(macro_mol.mol, bb_mol): the atoms of bb_mol get the next ids.
CombineMols(mol, bb_index, position) ==
    Append(mol, [bb |-> bb_index, position |-> position, first |-> NumAtoms(mol)])

\* The ids of the atoms of `mol` that have the property 'bonder', ascending.
MolBonders(mol) ==
    Flatten([k \in DOMAIN mol |->
               [j \in DOMAIN BuildingBlock(mol[k].bb).bonders |->
                  mol[k].first + BuildingBlock(mol[k].bb).bonders[j]]])

Deque_Unbounded(s, n) == s

\* deque(maxlen=n) filled with the elements of s: the last n of them.
Deque(s, n) == IF Len(s) <= n THEN s ELSE SubSeq(s, Len(s) - n + 1, Len(s))

\* The bonder ids place_mols stores on the position just placed: the last n_bb
\* 'bonder' atoms of the combined molecule.
PlacedBonderIds(mol, bb_index) == Deque(MolBonders(mol), BuildingBlock(bb_index).fgs)

\* macro_mol.bb_counter.update([bb])
CounterUpdate(counter, bb_index) ==
    [k \in DOMAIN counter |-> IF k = bb_index + 1 THEN counter[k] + 1 ELSE counter[k]]

\* Where the placed bonder atoms of a fragment can end up.
PlaceGrid == {<<0, 0, 0>>, <<0, 0, 1>>}

\* The same for the larger graphs: one point.
PlacePoint == {<<0, 0, 1>>}

\* The ids of the bonder atoms of the last fragment of `mol`.
LastBonders(mol) ==
    {mol[Len(mol)].first + BuildingBlock(mol[Len(mol)].bb).bonders[j] :
        j \in DOMAIN BuildingBlock(mol[Len(mol)].bb).bonders}

\* place_mol puts a block where it put it before: the transform is a function of
\* the block, the position and what is placed around it.  When the fragments
\* of `mol` are those the previous build had placed at this point, on the same
\* coordinates, the last fragment gets the coordinates it got then.
Replays(mol, coords) ==
    \/ previous = None
    \/ Len(mol) > Len(previous[1].mol)
    \/ mol # SubSeq(previous[1].mol, 1, Len(mol))
    \/ \E a \in DOMAIN atom_coords : atom_coords[a] # previous[1].atom_coords[a]
    \/ \A a \in LastBonders(mol) : coords[a] = previous[1].atom_coords[a]

\* The coordinates of macro_mol.mol after a fragment was combined into it: the
\* atoms already there keep theirs, each bonder atom of the fragment gets a
\* point of the grid.
CombinedCoords(mol) ==
    {coords \in
        {[a \in DOMAIN atom_coords \cup LastBonders(mol) |->
            IF a \in LastBonders(mol) THEN placed[a] ELSE atom_coords[a]] :
            placed \in [LastBonders(mol) -> topology.grid]} :
        Replays(mol, coords)}

----------------------------------------------------------------------------
(* Exceptions *)

\* `v1, v2 = ...` with too few values on the right.
ValueError == [type |-> "ValueError", args |-> <<"not enough values to unpack">>]
\* dict[key] without the key.
KeyError(key) == [type |-> "KeyError", args |-> <<key>>]
\* list[index] past the end.
IndexError == [type |-> "IndexError", args |-> <<"list index out of range">>]

----------------------------------------------------------------------------
(* Vertex.place_mol and Edge.place_mol *)

\* Vertex.edge_plane_normal unpacks two of the direction vectors between
\* pairs of connected positions: there are two only from three positions on.
edge_plane_normal_raises(position) == Len(connected[position]) < 3

\* The bonder atoms Edge.direction collects: those paired with the edge by the
\* positions connected to it.
EdgeBonders(position) ==
    Flatten([k \in DOMAIN connected[position] |->
               SelectSeq(atom_position_pairs[connected[position][k]],
                         LAMBDA pair : pair[2] = position)])

\* The exception Edge.direction raises, or NoError.
direction_error(position) ==
    IF topology.custom_position[position]
    THEN IF Len(connected[position]) # 2 THEN ValueError ELSE NoError
    ELSE IF Len(EdgeBonders(position)) < 2 THEN IndexError ELSE NoError

\* The exception position.place_mol raises, or NoError.
place_mol_error(position) ==
    IF topology.is_edge[position]
    THEN direction_error(position)
    ELSE IF edge_plane_normal_raises(position) THEN ValueError ELSE NoError

----------------------------------------------------------------------------
(* CageTopology._bb_maps *)

\* max(len(bb.functional_group_atoms()) for bb in macro_mol.building_blocks)
bb_fgs == Max({BuildingBlock(b).fgs : b \in BlockIndexes})

bbs == {b \in BlockIndexes : BuildingBlock(b).fgs = bb_fgs}
lks_AnyBlock == BlockIndexes

lks == {b \in BlockIndexes : BuildingBlock(b).fgs # bb_fgs}

IndexesOf(positions) == 0..(Len(positions) - 1)

\* bb_assignments is None: np.random.choice for every index of positions_A and
\* of positions_B.
RandomMaps ==
    {[bb_map |-> f, lk_map |-> g] :
        f \in [IndexesOf(topology.positions_A) -> bbs],
        g \in [IndexesOf(topology.positions_B) -> lks]}

RECURSIVE AssignPositions(_, _, _)
\* for position in positions: map_[position] = bb
AssignPositions(map_, positions, bb) ==
    IF positions = <<>> THEN map_
    ELSE AssignPositions((Head(positions) :> bb) @@ map_, Tail(positions), bb)

RECURSIVE AssignedMaps(_, _)
\* The loop over self.bb_assignments.items().
AssignedMaps(items, maps) ==
    IF items = <<>> THEN maps
    ELSE LET bb_index == Head(items)[1]
             positions == Head(items)[2]
         IN  IF BuildingBlock(bb_index).fgs = bb_fgs
             THEN AssignedMaps(Tail(items),
                      [maps EXCEPT !.bb_map = AssignPositions(@, positions, bb_index)])
             ELSE AssignedMaps(Tail(items),
                      [maps EXCEPT !.lk_map = AssignPositions(@, positions, bb_index)])

_bb_maps_IgnoreAssignments == RandomMaps

\* The (bb_map, lk_map) _bb_maps can return; none when np.random.choice is
\* given an empty list, which raises.
_bb_maps ==
    IF topology.bb_assignments = None
    THEN RandomMaps
    ELSE {AssignedMaps(topology.bb_assignments[1], [bb_map |-> <<>>, lk_map |-> <<>>])}

----------------------------------------------------------------------------
(* CageTopology.place_mols *)

AfterPositionsA_SkipB == "placed"

\* Where place_mols goes after its loop over positions_A: to the loop over
\* positions_B.
AfterPositionsA == IF topology.positions_B # <<>> THEN "place_B" ELSE "placed"

Position_A == topology.positions_A[i + 1]
Position_B == topology.positions_B[i + 1]

\* The `assign` events of a map, in key order.
AssignEvents(map_, positions) ==
    SelectSeq([k \in DOMAIN positions |-> <<"assign", positions[k]>>],
              LAMBDA ev : \E k \in DOMAIN positions :
                              positions[k] = ev[2] /\ (k - 1) \in DOMAIN map_)

\* scale = max(bb.max_diameter()[0] for bb in macro_mol.building_blocks)
max_diameter == Max({BuildingBlock(b).diameter : b \in BlockIndexes})

\* The calls Vertex.place_mol makes on the building block, in order.
Vertex_place_mol_transforms ==
    <<"set_orientation2", "set_bonder_centroid", "minimize_theta2">>

Edge_place_mol_TranslateFirst ==
    <<"set_orientation2", "set_bonder_centroid", "minimize_theta2">>

\* The calls Edge.place_mol makes on the linker, in order: "Align then place".
Edge_place_mol_transforms ==
    <<"set_orientation2", "minimize_theta2", "set_bonder_centroid">>

\* The position matrix position.place_mol leaves a block with: the positions
\* the block was moved onto since its original matrix <<>>, the last one last.
place_mol(matrix, position) == Append(matrix, position)

set_position_from_matrix_Skipped(current, matrix) == current

\* bb.set_position_from_matrix(matrix): the position matrix of bb afterwards.
set_position_from_matrix(current, matrix) == matrix

\* history: one call of position.place_mol, with the matrix the block had when
\* place_mol was called.
Placement(position, bb, start) ==
    [position |-> position, bb |-> bb, start |-> start,
     transforms |-> IF topology.is_edge[position] THEN Edge_place_mol_transforms
                    ELSE Vertex_place_mol_transforms]

\* The first statements of place_mols: the molecule is emptied, the maps are
\* made and the scale is taken.
place_mols_begin ==
    /\ UNCHANGED <<previous, objects, result>>
    /\ pc = "unbuilt"
    /\ topology.class = "CageTopology"
    /\ \E maps \in _bb_maps :
          /\ bb_map' = maps.bb_map
          /\ lk_map' = maps.lk_map
          /\ log' = log \o AssignEvents(maps.bb_map, topology.positions_A)
                        \o AssignEvents(maps.lk_map, topology.positions_B)
    /\ macro_mol' = [macro_mol EXCEPT !.mol = <<>>, !.bonds = <<>>,
                                      !.ipositions = macro_mol.position_matrix,
                                      !.entered = macro_mol.position_matrix]
    /\ atom_coords' = <<>>
    /\ scale' = max_diameter
    /\ i' = 0
    /\ pc' = IF topology.positions_A # <<>> THEN "place_A" ELSE AfterPositionsA
    /\ UNCHANGED <<topology, coord, connected, bonder_ids, atom_position_pairs,
                   distances, error, calls>>

\* _bb_maps raises: np.random.choice(lks) with no linker among the building blocks.
place_mols_bb_maps_raises ==
    /\ UNCHANGED <<previous, objects, result>>
    /\ pc = "unbuilt"
    /\ topology.class = "CageTopology"
    /\ _bb_maps = {}
    /\ macro_mol' = [macro_mol EXCEPT !.mol = <<>>, !.bonds = <<>>]
    /\ atom_coords' = <<>>
    /\ error' = [type |-> "ValueError", args |-> <<"a must be non-empty">>]
    /\ pc' = "failed"
    /\ UNCHANGED <<topology, coord, connected, bonder_ids, atom_position_pairs,
                   distances, scale, bb_map, lk_map, i, log, calls>>

\* One pass of the loop over positions_A: the block is placed, combined into
\* macro_mol.mol and counted, its bonder ids are stored on the position and
\* paired with the connected positions.
place_A ==
    /\ UNCHANGED <<previous, objects, result>>
    /\ pc = "place_A"
    /\ i \in DOMAIN bb_map
    /\ place_mol_error(Position_A) = NoError
    /\ \E position \in {Position_A} :
          LET bb == bb_map[i]
              mol == CombineMols(macro_mol.mol, bb, position)
              bb_pos == macro_mol.ipositions[bb + 1]
              start == set_position_from_matrix(macro_mol.position_matrix[bb + 1], bb_pos)
          IN  /\ distances' = [distances EXCEPT ![position] = <<>>]
              /\ macro_mol' = [macro_mol EXCEPT !.mol = mol,
                                                !.bb_counter = CounterUpdate(@, bb),
                                                !.position_matrix[bb + 1] =
                                                    place_mol(start, position),
                                                !.placements =
                                                    Append(@, Placement(position, bb, start))]
              /\ bonder_ids' = [bonder_ids EXCEPT ![position] = PlacedBonderIds(mol, bb)]
              /\ \E coords \in CombinedCoords(mol) :
                    /\ atom_coords' = coords
                    /\ atom_position_pairs' =
                           [atom_position_pairs EXCEPT
                               ![position] = pair_bonders_with_positions(
                                                 PlacedBonderIds(mol, bb), coords, scale,
                                                 position)]
              /\ UNCHANGED <<topology, coord, connected, scale>>
              /\ log' = log \o << <<"place", position>>, <<"pair", position>> >>
    /\ i' = IF i + 1 < Len(topology.positions_A) THEN i + 1 ELSE 0
    /\ pc' = IF i + 1 < Len(topology.positions_A) THEN "place_A" ELSE AfterPositionsA
    /\ UNCHANGED <<bb_map, lk_map, error, calls>>

\* The pass raises: bb_map[i] has no entry, or place_mol raises after flushing
\* position.distances.  What the earlier passes did to macro_mol stays.
place_A_raises ==
    /\ UNCHANGED <<previous, objects, result>>
    /\ pc = "place_A"
    /\ \/ /\ i \notin DOMAIN bb_map
          /\ error' = KeyError(i)
          /\ UNCHANGED <<distances, log>>
       \/ /\ i \in DOMAIN bb_map
          /\ place_mol_error(Position_A) # NoError
          /\ error' = place_mol_error(Position_A)
          /\ distances' = [distances EXCEPT ![Position_A] = <<>>]
          /\ log' = Append(log, <<"place_mol raises", Position_A>>)
    /\ macro_mol' = IF i \in DOMAIN bb_map
                    THEN [macro_mol EXCEPT !.position_matrix[bb_map[i] + 1] =
                             set_position_from_matrix(@, macro_mol.ipositions[bb_map[i] + 1])]
                    ELSE macro_mol
    /\ pc' = "failed"
    /\ UNCHANGED <<topology, coord, connected, bonder_ids, atom_position_pairs,
                   atom_coords, scale, bb_map, lk_map, i, calls>>

\* One pass of the loop over positions_B: as for positions_A, without the pairing.
place_B ==
    /\ UNCHANGED <<previous, objects, result>>
    /\ pc = "place_B"
    /\ i \in DOMAIN lk_map
    /\ place_mol_error(Position_B) = NoError
    /\ LET position == Position_B
           lk == lk_map[i]
           mol == CombineMols(macro_mol.mol, lk, position)
           lk_pos == macro_mol.ipositions[lk + 1]
           start == set_position_from_matrix(macro_mol.position_matrix[lk + 1], lk_pos)
       IN  /\ distances' = [distances EXCEPT ![position] = <<>>]
           /\ macro_mol' = [macro_mol EXCEPT !.mol = mol,
                                             !.bb_counter = CounterUpdate(@, lk),
                                             !.position_matrix[lk + 1] =
                                                 place_mol(start, position),
                                             !.placements =
                                                 Append(@, Placement(position, lk, start))]
           /\ atom_coords' \in CombinedCoords(mol)
           /\ bonder_ids' = [bonder_ids EXCEPT ![position] = PlacedBonderIds(mol, lk)]
           /\ log' = Append(log, <<"place", position>>)
    /\ i' = IF i + 1 < Len(topology.positions_B) THEN i + 1 ELSE 0
    /\ pc' = IF i + 1 < Len(topology.positions_B) THEN "place_B" ELSE "placed"
    /\ UNCHANGED <<topology, coord, connected, atom_position_pairs, scale, bb_map,
                   lk_map, error, calls>>

place_B_raises ==
    /\ UNCHANGED <<previous, objects, result>>
    /\ pc = "place_B"
    /\ \/ /\ i \notin DOMAIN lk_map
          /\ error' = KeyError(i)
          /\ UNCHANGED <<distances, log>>
       \/ /\ i \in DOMAIN lk_map
          /\ place_mol_error(Position_B) # NoError
          /\ error' = place_mol_error(Position_B)
          /\ distances' = [distances EXCEPT ![Position_B] = <<>>]
          /\ log' = Append(log, <<"place_mol raises", Position_B>>)
    /\ macro_mol' = IF i \in DOMAIN lk_map
                    THEN [macro_mol EXCEPT !.position_matrix[lk_map[i] + 1] =
                             set_position_from_matrix(@, macro_mol.ipositions[lk_map[i] + 1])]
                    ELSE macro_mol
    /\ pc' = "failed"
    /\ UNCHANGED <<topology, coord, connected, bonder_ids, atom_position_pairs,
                   atom_coords, scale, bb_map, lk_map, i, calls>>

----------------------------------------------------------------------------
(* NoLinkerCageTopology.place_mols *)

\* zip(self.positions_A, self.alignments, self.bb_assignments) stops with the
\* shortest; alignments is as long as positions_A.
ZipLen == Min(Len(topology.positions_A), Len(topology.bb_assignments))

NoLinker_place_mols_begin ==
    /\ UNCHANGED <<previous, objects, result>>
    /\ pc = "unbuilt"
    /\ topology.class = "NoLinkerCageTopology"
    /\ macro_mol' = [macro_mol EXCEPT !.mol = <<>>, !.bonds = <<>>,
                                      !.entered = macro_mol.position_matrix]
    /\ atom_coords' = <<>>
    /\ scale' = max_diameter
    /\ i' = 0
    /\ pc' = IF ZipLen > 0 THEN "place_NL" ELSE "placed"
    /\ UNCHANGED <<topology, coord, connected, bonder_ids, atom_position_pairs,
                   distances, bb_map, lk_map, error, log, calls>>

\* The building blocks one pass of the loop can take for bb_index.
NoLinkerChoice(bb_index) ==
    IF bb_index = None THEN BlockIndexes ELSE {bb_index[1]} \cap BlockIndexes

\* One pass of the loop: the block is chosen, placed, combined and counted, and
\* its bonder ids are stored on the position and paired.
NoLinker_place ==
    /\ UNCHANGED <<previous, objects, result>>
    /\ pc = "place_NL"
    /\ place_mol_error(Position_A) = NoError
    /\ \E position \in {Position_A} : \E bb \in NoLinkerChoice(topology.bb_assignments[i + 1]) :
          LET mol == CombineMols(macro_mol.mol, bb, position)
              ipos == macro_mol.position_matrix[bb + 1]
          IN  /\ distances' = [distances EXCEPT ![position] = <<>>]
              /\ macro_mol' = [macro_mol EXCEPT !.mol = mol,
                                                !.bb_counter = CounterUpdate(@, bb),
                                                !.position_matrix[bb + 1] =
                                                    set_position_from_matrix(
                                                        place_mol(ipos, position), ipos),
                                                !.placements =
                                                    Append(@, Placement(position, bb, ipos))]
              /\ bonder_ids' = [bonder_ids EXCEPT ![position] = PlacedBonderIds(mol, bb)]
              /\ \E coords \in CombinedCoords(mol) :
                    /\ atom_coords' = coords
                    /\ atom_position_pairs' =
                           [atom_position_pairs EXCEPT
                               ![position] = pair_bonders_with_positions(
                                                 PlacedBonderIds(mol, bb), coords, scale,
                                                 position)]
              /\ UNCHANGED <<topology, coord, connected, scale>>
              /\ log' = log \o << <<"assign", position>>, <<"place", position>>,
                                  <<"pair", position>> >>
    /\ i' = IF i + 1 < ZipLen THEN i + 1 ELSE 0
    /\ pc' = IF i + 1 < ZipLen THEN "place_NL" ELSE "placed"
    /\ UNCHANGED <<bb_map, lk_map, error, calls>>

\* The pass raises: bb_index is no index of macro_mol.building_blocks, or
\* place_mol raises after flushing position.distances.
NoLinker_place_raises ==
    /\ UNCHANGED <<previous, objects, result>>
    /\ pc = "place_NL"
    /\ \/ /\ NoLinkerChoice(topology.bb_assignments[i + 1]) = {}
          /\ error' = IndexError
          /\ UNCHANGED <<distances, log>>
       \/ /\ NoLinkerChoice(topology.bb_assignments[i + 1]) # {}
          /\ place_mol_error(Position_A) # NoError
          /\ error' = place_mol_error(Position_A)
          /\ distances' = [distances EXCEPT ![Position_A] = <<>>]
          /\ log' = log \o << <<"assign", Position_A>>, <<"place_mol raises", Position_A>> >>
    /\ pc' = "failed"
    /\ UNCHANGED <<topology, coord, connected, bonder_ids, atom_position_pairs, macro_mol,
                   atom_coords, scale, bb_map, lk_map, i, calls>>

----------------------------------------------------------------------------
(* A second build with the same topology object and building blocks *)

\* Every position has its building block named by bb_assignments.
ExplicitAssignment ==
    IF topology.class = "NoLinkerCageTopology"
    THEN \A k \in DOMAIN topology.bb_assignments : topology.bb_assignments[k] # None
    ELSE topology.bb_assignments # None

\* A new macromolecule is made of the same building blocks with the same
\* topology object: the positions keep the bonder_ids, atom_position_pairs and
\* distances the build before left on them.
rebuild ==
    /\ pc = "joined"
    /\ previous = None
    /\ ExplicitAssignment
    /\ previous' = Some([bonder_ids |-> bonder_ids,
                         atom_position_pairs |-> atom_position_pairs,
                         bonds |-> macro_mol.bonds,
                         mol |-> macro_mol.mol,
                         atom_coords |-> atom_coords])
    /\ macro_mol' = [position_matrix |-> macro_mol.position_matrix,
                     ipositions |-> <<>>, entered |-> <<>>, placements |-> <<>>,
                     building_blocks |-> macro_mol.building_blocks, mol |-> <<>>,
                     bonds |-> <<>>, bonds_made |-> 0,
                     bb_counter |-> [k \in DOMAIN macro_mol.building_blocks |-> 0]]
    /\ pc' = "unbuilt"
    /\ log' = <<>>
    /\ calls' = <<>>
    /\ UNCHANGED <<topology, coord, connected, bonder_ids, atom_position_pairs, distances,
                   atom_coords, scale, bb_map, lk_map, i, error, objects, result>>

----------------------------------------------------------------------------
(* The topologies that are built *)

XYZ(x, y, z) == <<x, y, z>>

\* Two vertices and the three edges between them (positions 3, 4, 5), the
\* edges moved off the axis; Edge.__init__ fills `connected` on both sides.
TwoPlusThree ==
    [class |-> "CageTopology",
     positions_A |-> <<1, 2>>, positions_B |-> <<3, 4, 5>>,
     coord |-> <<XYZ(0, 0, 1), XYZ(0, 0, -1), XYZ(-1, -1, 0), XYZ(1, -1, 0), XYZ(0, 1, 0)>>,
     connected |-> << <<3, 4, 5>>, <<3, 4, 5>>, <<1, 2>>, <<1, 2>>, <<1, 2>> >>,
     grid |-> PlaceGrid]

\* Three vertices and three edges, two between vertices 1 and 2 and one between
\* vertices 1 and 3: vertices 2 and 3 have fewer than three edges.
OpenCage ==
    [class |-> "CageTopology",
     positions_A |-> <<1, 2, 3>>, positions_B |-> <<4, 5, 6>>,
     coord |-> <<XYZ(0, 0, 1), XYZ(0, 0, -1), XYZ(1, 0, 0), XYZ(-1, -1, 0), XYZ(1, -1, 0),
                 XYZ(1, 0, 1)>>,
     connected |-> << <<4, 5, 6>>, <<4, 5>>, <<6>>, <<1, 2>>, <<1, 2>>, <<1, 3>> >>,
     grid |-> PlaceGrid]

\* Three vertices and six edges, two between every two vertices: every vertex
\* has four edges.
ThreeVertices ==
    [class |-> "CageTopology",
     positions_A |-> <<1, 2, 3>>, positions_B |-> <<4, 5, 6, 7, 8, 9>>,
     coord |-> <<XYZ(2, 0, 0), XYZ(0, 2, 0), XYZ(0, 0, 2), XYZ(1, 1, 0), XYZ(1, 1, 0),
                 XYZ(1, 0, 1), XYZ(1, 0, 1), XYZ(0, 1, 1), XYZ(0, 1, 1)>>,
     connected |-> << <<4, 5, 6, 7>>, <<4, 5, 8, 9>>, <<6, 7, 8, 9>>,
                      <<1, 2>>, <<1, 2>>, <<1, 3>>, <<1, 3>>, <<2, 3>>, <<2, 3>> >>,
     grid |-> PlacePoint]

\* Four vertices, each connected to the other three by NoLinkerCageTopology.connect.
FourVertices ==
    [class |-> "NoLinkerCageTopology",
     positions_A |-> <<1, 2, 3, 4>>, positions_B |-> <<>>,
     coord |-> <<XYZ(1, 1, 1), XYZ(1, -1, -1), XYZ(-1, 1, -1), XYZ(-1, -1, 1)>>,
     connected |-> << <<2, 3, 4>>, <<1, 3, 4>>, <<1, 2, 4>>, <<1, 2, 3>> >>,
     grid |-> PlaceGrid]

\* Two vertices and one connection between them.
TwoVertices ==
    [class |-> "NoLinkerCageTopology",
     positions_A |-> <<1, 2>>, positions_B |-> <<>>,
     coord |-> <<XYZ(0, 0, 0), XYZ(0, 0, 1)>>,
     connected |-> << <<2>>, <<1>> >>,
     grid |-> PlaceGrid]

\* A topology with the building blocks it is built from and its bb_assignments
\* (for CageTopology the items of the dict, in order).
Build(graph, building_blocks, bb_assignments) ==
    [graph |-> graph, building_blocks |-> building_blocks, bb_assignments |-> bb_assignments]

Builds ==
    << Build(TwoPlusThree, <<Tri, Di>>, None),
       Build(TwoPlusThree, <<Tri, Mono>>, None),
       Build(TwoPlusThree, <<Di, Mono>>, None),
       Build(TwoPlusThree, <<Tri>>, None),
       Build(TwoPlusThree, <<Tri, Di, Tri>>,
             Some(<< <<0, <<0>> >>, <<2, <<1>> >>, <<1, <<0, 1, 2>> >> >>)),
       Build(TwoPlusThree, <<Tri, Di>>, Some(<< <<0, <<0>> >>, <<1, <<0, 1, 2>> >> >>)),
       Build(TwoPlusThree, <<Tri, Di>>, Some(<< <<0, <<0, 1>> >>, <<1, <<0, 2>> >> >>)),
       Build(OpenCage, <<Tri, Di>>, None),
       Build(FourVertices, <<Tri>>, <<None, None, None, None>>),
       Build(FourVertices, <<Tri, Di>>, <<Some(0), Some(1), Some(0), Some(0)>>),
       Build(FourVertices, <<Tri, Di>>, <<Some(0), Some(0), Some(2), Some(0)>>),
       Build(TwoVertices, <<Di, Mono>>, <<None, None>>),
       Build(ThreeVertices, <<Tetra, TetraB, Di>>,
             Some(<< <<0, <<0, 2>> >>, <<1, <<1>> >>, <<2, <<0, 1, 2, 3, 4, 5>> >> >>)),
       Build(TwoPlusThree, <<Tri, Di, Tri>>,
             Some(<< <<0, <<0, 1>> >>, <<2, <<1>> >>, <<1, <<0, 1, 2>> >> >>)),
       Build([FourVertices EXCEPT !.grid = PlacePoint], <<Tetra>>,
             <<Some(0), Some(0), Some(0), Some(0)>>) >>

\* The state after the topology and the macromolecule are constructed.
InitBuild(b) ==
    /\ topology = [class |-> b.graph.class, positions_A |-> b.graph.positions_A,
                   positions_B |-> b.graph.positions_B,
                   bb_assignments |-> b.bb_assignments,
                   grid |-> b.graph.grid,
                   is_edge |-> [p \in DOMAIN b.graph.coord |->
                                   p \in Range(b.graph.positions_B)],
                   custom_position |-> [p \in DOMAIN b.graph.coord |->
                                           p \in Range(b.graph.positions_A)]]
    /\ coord = b.graph.coord
    /\ connected = b.graph.connected
    /\ bonder_ids = [p \in DOMAIN b.graph.coord |-> <<>>]
    /\ atom_position_pairs = [p \in DOMAIN b.graph.coord |-> <<>>]
    /\ distances = [p \in DOMAIN b.graph.coord |-> <<>>]
    /\ macro_mol = [position_matrix |-> [k \in DOMAIN b.building_blocks |-> <<>>],
                    ipositions |-> <<>>, entered |-> <<>>, placements |-> <<>>,
                    building_blocks |-> b.building_blocks, mol |-> <<>>, bonds |-> <<>>,
                    bonds_made |-> 0,
                    bb_counter |-> [k \in DOMAIN b.building_blocks |-> 0]]
    /\ atom_coords = <<>>
    /\ scale = 0
    /\ bb_map = <<>>
    /\ lk_map = <<>>
    /\ i = 0
    /\ pc = "unbuilt"
    /\ error = NoError
    /\ log = <<>>
    /\ calls = <<>>
    /\ previous = None
    /\ objects = <<>>
    /\ result = None

Init == \E k \in DOMAIN Builds : InitBuild(Builds[k])

Next ==
    \/ place_mols_begin
    \/ place_mols_bb_maps_raises
    \/ place_A
    \/ place_A_raises
    \/ place_B
    \/ place_B_raises
    \/ NoLinker_place_mols_begin
    \/ NoLinker_place
    \/ NoLinker_place_raises
    \/ join_mols
    \/ rebuild

Spec == Init /\ [][Next]_vars

----------------------------------------------------------------------------
(* Properties of the matchers *)

Positions == DOMAIN coord

Paired(vertex) == <<"pair", vertex>> \in Range(log)

NewBonds == macro_mol.bonds

Endpoints(bond) == {bond.atom1, bond.atom2}

\* The new bonds with one endpoint among P's bonder atoms and the other among Q's.
BondsAcross(P, Q) ==
    {k \in DOMAIN NewBonds :
        \/ NewBonds[k].atom1 \in Range(bonder_ids[P]) /\ NewBonds[k].atom2 \in Range(bonder_ids[Q])
        \/ NewBonds[k].atom1 \in Range(bonder_ids[Q]) /\ NewBonds[k].atom2 \in Range(bonder_ids[P])}

\* C1: after pair_bonders_with_positions, vertex.atom_position_pairs holds no
\* bonder atom id in more than one pair and no connected position in more than
\* one pair.
C1_PairingBijective ==
    \A vertex \in Positions :
        \A k, l \in DOMAIN atom_position_pairs[vertex] :
            k # l => /\ atom_position_pairs[vertex][k][1] # atom_position_pairs[vertex][l][1]
                     /\ atom_position_pairs[vertex][k][2] # atom_position_pairs[vertex][l][2]

\* A vertex was paired, two pairs were accepted and candidates were skipped.
C1_Witness ==
    \E vertex \in Positions :
        /\ Paired(vertex)
        /\ Len(atom_position_pairs[vertex]) >= 2
        /\ Len(PairCandidates(bonder_ids[vertex], atom_coords, scale, vertex))
              > Len(atom_position_pairs[vertex])

\* C2: after join_mols no atom id is an endpoint of more than one newly added
\* bond, over all positions of positions_A together.
C2_AtomBondsOnce ==
    pc = "joined" =>
        \A k, l \in DOMAIN NewBonds :
            k # l => Endpoints(NewBonds[k]) \cap Endpoints(NewBonds[l]) = {}

\* join_mols added two bonds out of atom_position_pairs of two positions.
C2_Witness ==
    /\ pc = "joined"
    /\ Len(NewBonds) >= 2
    /\ Cardinality({c[1] : c \in Range(calls)}) >= 2

\* C3: after join_mols, for connected positions P and Q the number of new bonds
\* between a bonder atom of P and a bonder atom of Q is at most the smaller of
\* the two positions' numbers of bonder atoms.
C3_BondCountBound ==
    pc = "joined" =>
        \A P \in Positions : \A Q \in Range(connected[P]) :
            Cardinality(BondsAcross(P, Q)) <= Min(Len(bonder_ids[P]), Len(bonder_ids[Q]))

\* The bound is met with unequal numbers of bonder atoms at the two positions.
C3_Witness ==
    /\ pc = "joined"
    /\ \E P \in Positions : \E Q \in Range(connected[P]) :
          /\ Len(bonder_ids[P]) > Len(bonder_ids[Q])
          /\ Cardinality(BondsAcross(P, Q)) = Len(bonder_ids[Q])
          /\ Len(bonder_ids[Q]) >= 1

\* Two vertices joined by one connection, two bonder atoms on each, both paired.
TwoVertexScenario ==
    /\ topology.positions_A = <<1, 2>>
    /\ topology.positions_B = <<>>
    /\ connected = << <<2>>, <<1>> >>
    /\ Len(bonder_ids[1]) = 2
    /\ Len(bonder_ids[2]) = 2
    /\ Paired(1)
    /\ Paired(2)

\* C4: in the two-vertex scenario join_mols adds exactly one bond, between the
\* two bonder atoms (one per vertex) with the smallest inter-atom distance, with
\* periodicity (0, 0, 0).
C4_OneNearestBond ==
    (pc = "joined" /\ TwoVertexScenario) =>
        /\ Len(NewBonds) = 1
        /\ NewBonds[1].periodicity = <<0, 0, 0>>
        /\ \E a \in Range(bonder_ids[1]) : \E b \in Range(bonder_ids[2]) :
              /\ Endpoints(NewBonds[1]) = {a, b}
              /\ \A a2 \in Range(bonder_ids[1]) : \A b2 \in Range(bonder_ids[2]) :
                    atom_distance(a, b) <= atom_distance(a2, b2)

Connection(call) == {call[1], call[2]}

\* C5: join_mols computes the atom-to-atom candidate distances of a connection
\* exactly once, never twice for the same connection.
C5_OncePerConnection ==
    pc = "joined" =>
        \A k, l \in DOMAIN calls : k # l => Connection(calls[k]) # Connection(calls[l])

AllPaired == \A vertex \in Range(topology.positions_A) : Paired(vertex)

Unbonded(atom) == \A k \in DOMAIN NewBonds : atom \notin Endpoints(NewBonds[k])

\* C6: when two connected positions hold unequal numbers of bonder atoms, the
\* build completes and every bonder atom of theirs left without a new bond is
\* reported.
C6_UnbondedReported ==
    (pc = "joined" /\ AllPaired) =>
        \A P \in Positions : \A Q \in Range(connected[P]) :
            Len(bonder_ids[P]) # Len(bonder_ids[Q]) =>
                \A atom \in Range(bonder_ids[P]) \cup Range(bonder_ids[Q]) :
                    Unbonded(atom) => atom \in reported

\* The number of atom-to-position pairings stored over positions_A.
NumPairs ==
    Sum([k \in DOMAIN topology.positions_A |->
           Len(atom_position_pairs[topology.positions_A[k]])])

\* C7, as claimed: bonds_made is the number of new bonds, and every stored
\* atom-to-position pairing gives rise to exactly one bond.
C7_BondPerPairing ==
    pc = "joined" =>
        /\ macro_mol.bonds_made = Len(NewBonds)
        /\ Len(NewBonds) = NumPairs

\* C7, amended: bonds_made is the number of new bonds, no two of them join the
\* same atoms, every new bond runs from the atom of a stored atom-to-position
\* pairing to a bonder atom of the paired position, and the new bonds are at
\* most as many as the stored pairings.
C7_BondsFromPairings ==
    pc = "joined" =>
        /\ macro_mol.bonds_made = Len(NewBonds)
        /\ \A k, l \in DOMAIN NewBonds : k # l => Endpoints(NewBonds[k]) # Endpoints(NewBonds[l])
        /\ \A k \in DOMAIN NewBonds :
              \E P \in Range(topology.positions_A) : \E j \in DOMAIN atom_position_pairs[P] :
                  /\ atom_position_pairs[P][j][1] = NewBonds[k].atom1
                  /\ NewBonds[k].atom2 \in Range(bonder_ids[atom_position_pairs[P][j][2]])
        /\ Len(NewBonds) <= NumPairs

\* Bonds were made, and fewer than there are stored pairings.
C7_Witness ==
    /\ pc = "joined"
    /\ AllPaired
    /\ Len(NewBonds) >= 1
    /\ Len(NewBonds) < NumPairs

----------------------------------------------------------------------------
(* Properties of the build *)

\* The positions a fragment of macro_mol.mol sits on.
PlacedPositions == {macro_mol.mol[k].position : k \in DOMAIN macro_mol.mol}

\* C8: when place_mols fails part-way, macro_mol.mol and macro_mol.bb_counter
\* do not hold the fragments placed before the failure.
C8_NoPartialStructure ==
    pc = "failed" =>
        /\ macro_mol.mol = <<>>
        /\ \A k \in DOMAIN macro_mol.bb_counter : macro_mol.bb_counter[k] = 0

\* The position has too few connections for its placement: a vertex fewer
\* than 3, an edge fewer than 2.
TooFewConnections(position) ==
    IF topology.is_edge[position]
    THEN Len(connected[position]) < 2
    ELSE Len(connected[position]) < 3

\* C9: placing a block on a position with too few connections signals a
\* TopologyError that identifies the position, and no placement result is
\* produced for it.
C9_TopologyError ==
    \A position \in Positions :
        (TooFewConnections(position) /\ <<"place_mol raises", position>> \in Range(log)) =>
            /\ error.type = "TopologyError"
            /\ position \in Range(error.args)
            /\ position \notin PlacedPositions

Events(kinds) == {k \in DOMAIN log : log[k][1] \in kinds}

Before(first, then) == \A k \in Events(first) : \A l \in Events(then) : k < l

\* C10, as claimed: assignment of every position finishes before any placement,
\* placement of every position finishes before any atom-to-position or
\* atom-to-atom pairing, and all bonding finishes before the result is stored.
C10_StrictStages ==
    /\ Before({"assign"}, {"place"})
    /\ Before({"place"}, {"pair", "distances", "bonds"})
    /\ Before({"pair", "distances", "bonds"}, {"GetMol"})

\* The positions the loops of place_mols run over.
LoopedPositions ==
    IF topology.class = "NoLinkerCageTopology"
    THEN {topology.positions_A[k] : k \in 1..ZipLen}
    ELSE Range(topology.positions_A) \cup Range(topology.positions_B)

\* C10, amended: CageTopology.place_mols assigns every position before it
\* places any, NoLinkerCageTopology.place_mols chooses the block of a position
\* right before placing it; the atom-to-position pairing of a position of
\* positions_A runs right after the placement of that position, before later
\* positions are placed; every position of positions_A is placed before any of
\* positions_B and place_mols returns with every position of its loops placed;
\* join_mols, run on the placed molecule, computes every atom-to-atom distance
\* after all placements and atom-to-position pairings and before it adds a
\* bond, and adds all its bonds before it stores the molecule.
C10_Stages ==
    /\ topology.class = "CageTopology" => Before({"assign"}, {"place"})
    /\ topology.class = "NoLinkerCageTopology" =>
          \A k \in Events({"place"}) : k > 1 /\ log[k - 1] = <<"assign", log[k][2]>>
    /\ \A k \in Events({"pair"}) : k > 1 /\ log[k - 1] = <<"place", log[k][2]>>
    /\ \A k \in Events({"place"}) :
          log[k][2] \in Range(topology.positions_A) =>
              k < Len(log) /\ log[k + 1] = <<"pair", log[k][2]>>
    /\ \A k, l \in Events({"place"}) :
          (log[k][2] \in Range(topology.positions_A)
              /\ log[l][2] \in Range(topology.positions_B)) => k < l
    /\ Before({"assign", "place", "pair"}, {"distances"})
    /\ Before({"distances"}, {"bonds"})
    /\ Before({"bonds"}, {"GetMol"})
    /\ pc \in {"placed", "joined"} =>
          \A position \in LoopedPositions : <<"place", position>> \in Range(log)

\* A build with linkers ran to the end and made bonds: positions were paired
\* before later positions were placed.
C10_Witness ==
    /\ pc = "joined"
    /\ topology.positions_B # <<>>
    /\ Len(NewBonds) >= 1
    /\ ~Before({"place"}, {"pair"})

AssignedPositions(bb_index) ==
    IF BuildingBlock(bb_index).fgs = bb_fgs THEN topology.positions_A
    ELSE topology.positions_B

\* No position is listed for two blocks of the same kind.
OneBlockPerPosition ==
    \A k, l \in DOMAIN topology.bb_assignments[1] :
        LET e1 == topology.bb_assignments[1][k]
            e2 == topology.bb_assignments[1][l]
        IN  (k # l /\ AssignedPositions(e1[1]) = AssignedPositions(e2[1]))
                => Range(e1[2]) \cap Range(e2[2]) = {}

\* The blocks of the fragments placed on a position.
BlocksOn(position) ==
    {macro_mol.mol[k].bb : k \in {j \in DOMAIN macro_mol.mol : macro_mol.mol[j].position = position}}

MapsMade ==
    /\ topology.class = "CageTopology"
    /\ pc \in {"place_A", "place_B", "placed", "joined", "failed"}
    /\ ~(error.type = "ValueError" /\ error.args = <<"a must be non-empty">>)

C14_EngineMutatesNothing ==
    [][/\ coord' = coord
       /\ connected' = connected
       /\ bonder_ids' = bonder_ids
       /\ atom_position_pairs' = atom_position_pairs
       /\ distances' = distances
       /\ topology.custom_position' = topology.custom_position]_vars

\* s is the beginning of t.
IsPrefix(s, t) == Len(s) <= Len(t) /\ SubSeq(t, 1, Len(s)) = s

\* C14, amended: pair_bonders_with_positions and join_mols leave coord,
\* connected, bonder_ids and custom_position of every position unchanged;
\* atom_position_pairs of a position changes only in the call of
\* pair_bonders_with_positions on that position, and distances of a position
\* changes only in join_mols, only for a position of positions_A and only by
\* entries appended to it.
C14_EngineWrites ==
    [][/\ coord' = coord
       /\ connected' = connected
       /\ bonder_ids' = bonder_ids
       /\ topology.custom_position' = topology.custom_position
       /\ \A position \in Positions :
             atom_position_pairs'[position] # atom_position_pairs[position]
                 => log' = Append(log, <<"pair", position>>)
       /\ \A position \in Positions :
             distances'[position] # distances[position]
                 => /\ pc' = "joined"
                    /\ position \in Range(topology.positions_A)
                    /\ IsPrefix(distances[position], distances'[position])]_vars

\* Both matchers have written: a vertex holds pairings and a position of
\* positions_A holds distances, next to an edge that holds neither.
C14_Witness ==
    /\ pc = "joined"
    /\ topology.positions_B # <<>>
    /\ \E position \in Range(topology.positions_A) :
          /\ atom_position_pairs[position] # <<>>
          /\ distances[position] # <<>>
    /\ \A position \in Range(topology.positions_B) :
          /\ atom_position_pairs[position] = <<>>
          /\ distances[position] = <<>>
          /\ bonder_ids[position] # <<>>

\* pair_bonders_with_positions is greedy: every pair it accepts is no longer
\* than any candidate of the vertex whose atom and position were both free
\* when it was accepted, and no candidate with both free is left at the end.
PairGreedy ==
    \A vertex \in Positions :
        Paired(vertex) =>
            LET cands == PairCandidates(bonder_ids[vertex], atom_coords, scale, vertex)
                pairs == atom_position_pairs[vertex]
                Free(c, n) == /\ c[2] \notin {pairs[k][1] : k \in 1..n}
                              /\ c[3] \notin {pairs[k][2] : k \in 1..n}
            IN  /\ \A n \in DOMAIN pairs : \A j \in DOMAIN cands :
                      Free(cands[j], n - 1) =>
                          euclidean(atom_coords[pairs[n][1]],
                                    Scaled(coord[pairs[n][2]], scale)) <= cands[j][1]
                /\ \A j \in DOMAIN cands : ~Free(cands[j], Len(pairs))

\* The atom-to-atom candidates of the build: the entries of distances of every
\* position of positions_A.
BuildCandidates ==
    Flatten([k \in DOMAIN topology.positions_A |-> distances[topology.positions_A[k]]])

\* join_mols is greedy over the candidates of the build.
JoinGreedy ==
    pc = "joined" =>
        LET Free(c, n) == /\ c[2] \notin UNION {Endpoints(NewBonds[k]) : k \in 1..n}
                          /\ c[3] \notin UNION {Endpoints(NewBonds[k]) : k \in 1..n}
        IN  /\ \A n \in DOMAIN NewBonds : \A j \in DOMAIN BuildCandidates :
                  Free(BuildCandidates[j], n - 1) =>
                      atom_distance(NewBonds[n].atom1, NewBonds[n].atom2)
                          <= BuildCandidates[j][1]
            /\ \A j \in DOMAIN BuildCandidates : ~Free(BuildCandidates[j], Len(NewBonds))

\* C16: both matchers visit their candidates in ascending order of distance
\* and accept a candidate exactly when neither member was consumed before:
\* pair_bonders_with_positions over the candidates of the vertex, join_mols
\* over the candidates of the build.
C16_GreedyMatchers == PairGreedy /\ JoinGreedy

-----------------------------------------------------------------------------
\* Plane normals: Vertex.edge_plane_normal (cage/base.py) and
\* BuildingBlock.get_bonder_plane_normal (molecules/building_block.py).
\*
\* Vectors are integer triples.  Only the direction of a vector matters to the
\* properties below, so a normalised vector is kept as an integer vector of the
\* same direction together with a flag for the undefined result (NaN) that
\* dividing the zero vector by its norm gives.

Zero == <<0, 0, 0>>

Sub(a, b) == <<a[1] - b[1], a[2] - b[2], a[3] - b[3]>>

Add(a, b) == <<a[1] + b[1], a[2] + b[2], a[3] + b[3]>>

Times(k, a) == <<k * a[1], k * a[2], k * a[3]>>

Dot(a, b) == a[1] * b[1] + a[2] * b[2] + a[3] * b[3]

Cross(a, b) == <<a[2] * b[3] - a[3] * b[2],
                 a[3] * b[1] - a[1] * b[3],
                 a[1] * b[2] - a[2] * b[1]>>

Abs(x) == IF x < 0 THEN -x ELSE x

\* A vector value: `nan` says that its components are NaN.
Vec(v) == [nan |-> FALSE, vector |-> v]

NaNVec == [nan |-> TRUE, vector |-> Zero]

\* v / ||v||, up to a positive factor; NaN for the zero vector.
normalize_vector(v) == IF v.nan \/ v.vector = Zero THEN NaNVec ELSE v

\* np.cross of two vector values.
cross(a, b) == IF a.nan \/ b.nan THEN NaNVec ELSE Vec(Cross(a.vector, b.vector))

\* `vector_theta(a, b) > np.pi/2`: the angle is obtuse exactly when the dot
\* product is negative; with a NaN or zero operand the angle is NaN and the
\* comparison is false.
ThetaOverHalfPi(a, b) ==
    /\ ~a.nan /\ ~b.nan
    /\ a.vector # Zero /\ b.vector # Zero
    /\ Dot(a.vector, b.vector) < 0

\* itertools.combinations(connected, 2), in its order, as index pairs.
Combinations2(n) ==
    LET pairs == {pr \in (1..n) \X (1..n) : pr[1] < pr[2]}
        before(p, q) == p[1] < q[1] \/ (p[1] = q[1] /\ p[2] < q[2])
        rank(p) == Cardinality({q \in pairs : before(q, p)}) + 1
    IN  [k \in 1..Cardinality(pairs) |-> CHOOSE p \in pairs : rank(p) = k]

\* Vertex.edge_direction_vectors(scale): one normalised vector per pair of
\* connected positions.
edge_direction_vectors(coords, vertex_scale) ==
    LET pairs == Combinations2(Len(coords))
    IN  [k \in DOMAIN pairs |->
            normalize_vector(Vec(Times(vertex_scale,
                Sub(coords[pairs[k][1]], coords[pairs[k][2]]))))]

\* The cross product edge_plane_normal takes: of the first two direction
\* vectors.
FirstTwoCross(vs) == cross(vs[1], vs[2])

\* Vertex.edge_plane_normal(scale) of a vertex whose connected positions have
\* the coordinates `coords`; needs two direction vectors, that is three
\* connected positions.
edge_plane_normal(coords, vertex_scale) ==
    LET vs == edge_direction_vectors(coords, vertex_scale)
        normal == normalize_vector(FirstTwoCross(vs))
        reference == Vec(Times(vertex_scale, coords[1]))
    IN  IF ThetaOverHalfPi(normal, reference)
        THEN Vec(Times(-1, normal.vector))
        ELSE normal

\* np.allclose(cc_vector, [0, 0, 0], atol=1e-5).  The coordinates of a building
\* block are in units of atol (1e-5); the centroid of its four atoms minus the
\* centroid of its three bonders is cc12 / 12 for an integer vector cc12.
atol == 1

allclose_zero(cc12) == \A k \in 1..3 : Abs(cc12[k]) <= 12 * atol

\* The functional groups get_bonder_plane_normal works on: all of the block
\* when fg_ids is None, else list(fg_ids).
fg_ids_list(bb) ==
    IF bb.fg_ids = None THEN [k \in DOMAIN bb.bonders |-> k - 1] ELSE bb.fg_ids[1]

MinFgs == 3

TooFewFgs_OfBlock(bb) == Len(bb.bonders) < MinFgs

\* `len(fg_ids) < 3`, on which get_bonder_plane_normal raises ValueError.
TooFewFgs(bb) == Len(fg_ids_list(bb)) < MinFgs

PlaneError ==
    [type |-> "ValueError",
     args |-> <<"At least 3 functional groups are necessary to create a plane.">>]

\* get_bonder_centroids(fg_ids) of a building block with one bonder per
\* functional group.
get_bonder_centroids(bb) ==
    [k \in DOMAIN fg_ids_list(bb) |-> bb.bonders[fg_ids_list(bb)[k] + 1]]

RECURSIVE VecSum(_)
VecSum(points) ==
    IF points = <<>> THEN Zero ELSE Add(Head(points), VecSum(Tail(points)))

\* 12 * get_centroid_centroid_direction_vector(fg_ids) of a building block
\* with three functional groups of one bonder each and one more atom, for
\* three selected functional groups: get_centroid() - bonder_centroid.
cc_vector12(bb) ==
    Sub(Times(3, Add(VecSum(bb.bonders), bb.other)),
        Times(4, VecSum(get_bonder_centroids(bb))))

AxisVectors ==
    {<<1, 0, 0>>, <<-1, 0, 0>>, <<0, 1, 0>>, <<0, -1, 0>>, <<0, 0, 1>>, <<0, 0, -1>>}

Collinear(points) ==
    \A a, b, c \in points : Cross(Sub(b, a), Sub(c, a)) = Zero

Coplanar(points) ==
    \A a, b, c, d \in points : Dot(Cross(Sub(b, a), Sub(c, a)), Sub(d, a)) = 0

\* np.linalg.svd(centroids - bonder_centroid)[-1][2, :]: for three centroids
\* that are not on a line a normal of their plane, of either sign; for
\* centroids on a line or in one point some vector perpendicular to all of
\* their differences (those along the axes stand for them).
svd_normals(bb) ==
    LET c == get_bonder_centroids(bb)
    IN  IF Len(c) = 3 /\ ~Collinear(Range(c))
        THEN LET n == Cross(Sub(c[2], c[1]), Sub(c[3], c[1]))
             IN  {n, Times(-1, n)}
        ELSE {v \in AxisVectors : \A a, b \in Range(c) : Dot(v, Sub(a, b)) = 0}

\* BuildingBlock.get_bonder_plane_normal(fg_ids), past the check of the
\* number of functional groups: the vectors it can return.
get_bonder_plane_normal(bb) ==
    LET cc == cc_vector12(bb)
    IN  {IF ~allclose_zero(cc) /\ ThetaOverHalfPi(Vec(n), Vec(cc))
         THEN Vec(Times(-1, n)) ELSE Vec(n) : n \in svd_normals(bb)}

\* The coordinates of connected positions the vertices are drawn over.
VertexPoints == {<<1, 0, 0>>, <<0, 1, 0>>, <<0, 0, 1>>, <<2, 0, 0>>, <<3, 0, 0>>, <<0, 0, 0>>}

VertexScales == {1, 2}

MinConnected == 3

MaxConnected == 4

\* The atoms of the building blocks: bonders far apart and close together, and
\* the remaining atom near and far from the centroid of the bonders.
BonderPoints == {<<0, 0, 0>>, <<240, 0, 0>>, <<0, 240, 0>>, <<0, 0, 240>>}

OtherPoints == {<<80, 80, 0>>, <<80, 80, 1>>, <<80, 80, -1>>, <<80, 80, 240>>,
                <<80, 80, -240>>, <<0, 0, 0>>}

\* The sequences of lo to hi different elements of S.
SeqsOf(S, lo, hi) ==
    UNION {{s \in [1..n -> S] : \A j, k \in 1..n : j # k => s[j] # s[k]} : n \in lo..hi}

\* The fg_ids arguments for a block of n functional groups: None, and the
\* lists of up to two ids and, for a block of three, of three ids.
FgIdArguments(n) ==
    {None} \cup {Some(ids) : ids \in UNION {[1..m -> 0..(n - 1)] :
                                               m \in 0..(IF n = MinFgs THEN MinFgs ELSE MinFgs - 1)}}

GeometryInputs ==
    {[kind |-> "Vertex", connected |-> cs, scale |-> sc, bonders |-> <<>>, other |-> Zero,
      fg_ids |-> None] :
        cs \in SeqsOf(VertexPoints, MinConnected, MaxConnected), sc \in VertexScales}
    \cup
    UNION {{[kind |-> "BuildingBlock", connected |-> <<>>, scale |-> 1, bonders |-> bs,
             other |-> o, fg_ids |-> ids] :
                o \in OtherPoints, ids \in FgIdArguments(Len(bs))} :
           bs \in SeqsOf(BonderPoints, 0, MinFgs)}

\* No build is under way.
NoBuild ==
    /\ topology = [class |-> "None"]
    /\ coord = <<>>
    /\ connected = <<>>
    /\ bonder_ids = <<>>
    /\ atom_position_pairs = <<>>
    /\ distances = <<>>
    /\ macro_mol = EmptyMol
    /\ atom_coords = <<>>
    /\ scale = 1
    /\ bb_map = <<>>
    /\ lk_map = <<>>
    /\ i = 0
    /\ error = NoError
    /\ log = <<>>
    /\ calls = <<>>
    /\ previous = None

buildVars == <<topology, coord, connected, bonder_ids, atom_position_pairs, distances,
               macro_mol, atom_coords, scale, bb_map, lk_map, i, error, log, calls,
               previous>>

GeometryInit ==
    /\ NoBuild
    /\ pc = "geometry"
    /\ objects \in GeometryInputs
    /\ result = None

edge_plane_normal_call ==
    /\ pc = "geometry"
    /\ objects.kind = "Vertex"
    /\ result = None
    /\ result' = Some(edge_plane_normal(objects.connected, objects.scale))
    /\ UNCHANGED <<buildVars, pc, objects>>

geometryFrame == <<topology, coord, connected, bonder_ids, atom_position_pairs,
                   distances, macro_mol, atom_coords, scale, bb_map, lk_map, i, log,
                   calls, pc, objects>>

\* block.get_bonder_plane_normal(fg_ids) returns; `previous` is the block as
\* it was before the call.
get_bonder_plane_normal_call ==
    /\ pc = "geometry"
    /\ objects.kind = "BuildingBlock"
    /\ result = None /\ error = NoError
    /\ ~TooFewFgs(objects)
    /\ \E normal \in get_bonder_plane_normal(objects) : result' = Some(normal)
    /\ previous' = Some(objects)
    /\ UNCHANGED <<geometryFrame, error>>

\* block.get_bonder_plane_normal(fg_ids) raises.
get_bonder_plane_normal_raises ==
    /\ pc = "geometry"
    /\ objects.kind = "BuildingBlock"
    /\ result = None /\ error = NoError
    /\ TooFewFgs(objects)
    /\ error' = PlaneError
    /\ previous' = Some(objects)
    /\ UNCHANGED <<geometryFrame, result>>

GeometryNext ==
    \/ edge_plane_normal_call
    \/ get_bonder_plane_normal_call
    \/ get_bonder_plane_normal_raises

SpecGeometry == GeometryInit /\ [][GeometryNext]_vars

\* A direction: defined and not the zero vector.
IsDirection(v) == ~v.nan /\ v.vector # Zero

VertexNormalConvention ==
    (pc = "geometry" /\ objects.kind = "Vertex" /\ result # None
        /\ ~Collinear(Range(objects.connected)))
    => LET normal == result[1]
           points == Range(objects.connected)
       IN  /\ IsDirection(normal)
           /\ Dot(normal.vector, Times(objects.scale, objects.connected[1])) >= 0
           /\ Coplanar(points) =>
                \A a, b \in points : Dot(normal.vector, Sub(a, b)) = 0
           /\ objects.connected = << <<1, 0, 0>>, <<0, 1, 0>>, <<0, 0, 1>> >> =>
                /\ Cross(normal.vector, <<1, 1, 1>>) = Zero
                /\ Dot(normal.vector, <<1, 1, 1>>) > 0

BonderNormalConvention ==
    (pc = "geometry" /\ objects.kind = "BuildingBlock" /\ result # None
        /\ cc_vector12(objects) # Zero)
    => /\ IsDirection(result[1])
       /\ Dot(result[1].vector, cc_vector12(objects)) >= 0

\* C15: for a vertex with at least 3 connected positions that are not collinear
\* and a positive scale, edge_plane_normal returns a normal that has a
\* non-negative dot product with its reference direction and is perpendicular
\* to the plane through the connected positions; for the connected positions
\* (1,0,0), (0,1,0), (0,0,1) it is parallel to (1,1,1) and points away from the
\* origin; get_bonder_plane_normal keeps the same sign convention against the
\* vector from the centroid of the bonders to the centroid of the molecule
\* whenever that vector is not zero.
C15_NormalConvention == VertexNormalConvention /\ BonderNormalConvention

-----------------------------------------------------------------------------
\* The objects of the newer API: Atom, Bond (molecular/bond.py) and Vertex.
\*
\* `objects` is a heap: atoms, bonds and vertices are held by reference (their
\* index in the heap), so that two holders of one object see each other's
\* changes.  `held` are the atoms the caller holds a reference to.  A caller
\* may add a public attribute `attr` and a private attribute `_attr` to a
\* bond or a vertex; None says that the attribute is not set.  `log` holds one
\* entry per call, with the heap as it was before the call.  `caller` is the
\* program that makes the calls: "scale" scales vertices (test_apply_scale),
\* "clone" annotates and clones a vertex and a bond (test_clone), "atoms" makes
\* bonds, asks them for their atoms and changes the atoms it holds.

MaxCalls == 4

Atom(id) == [id |-> id, charge |-> 0]

\* The caller's atoms: stk.C(0), stk.C(5) and stk.Li(2).
c0 == 1

c5 == 2

li2 == 3

CallerAtoms == <<Atom(0), Atom(5), Atom(2)>>

LastAtom(o) == Len(o.atoms)

LastBond(o) == Len(o.bonds)

LastVertex(o) == Len(o.vertices)

\* atom.clone(): a new Atom object with the attributes of `atom`; it is
\* LastAtom of the heap returned.
Atom_clone(o, atom) == [o EXCEPT !.atoms = Append(@, o.atoms[atom])]

BondObject(atom1, atom2, order, periodicity) ==
    [_atom1 |-> atom1, _atom2 |-> atom2, _order |-> order,
     _periodicity |-> periodicity, attr |-> None, _attr |-> None]

\* Bond.dangerous_init(atom1, atom2, order, periodicity): the new bond is
\* LastBond of the heap returned.
dangerous_init(o, atom1, atom2, order, periodicity) ==
    [o EXCEPT !.bonds = Append(@, BondObject(atom1, atom2, order, periodicity))]

Bond_init_NoClone(o, atom1, atom2, order, periodicity) ==
    [o EXCEPT !.bonds = Append(@, BondObject(atom1, atom2, order, periodicity))]

\* Bond(atom1, atom2, order, periodicity)
Bond_init(o, atom1, atom2, order, periodicity) ==
    LET o1 == Atom_clone(o, atom1)
        o2 == Atom_clone(o1, atom2)
    IN  [o2 EXCEPT !.bonds = Append(@, BondObject(LastAtom(o1), LastAtom(o2),
                                                  order, periodicity))]

\* bond.get_atom1(): the atom returned is LastAtom of the heap returned.
get_atom1(o, bond) == Atom_clone(o, o.bonds[bond]._atom1)

\* bond.get_atom2()
get_atom2(o, bond) == Atom_clone(o, o.bonds[bond]._atom2)

\* The attributes of vars(self) that clone() passes on with setattr: those
\* whose name does not start with an underscore.
PublicAttributes(self) == [attr |-> self.attr, _attr |-> None]

Bond_clone_AllAttributes(o, bond, atom_map) ==
    LET self == o.bonds[bond]
        o1 == Atom_clone(o, self._atom1)
        o2 == Atom_clone(o1, self._atom2)
    IN  [o2 EXCEPT !.bonds = Append(@,
            [_atom1 |-> LastAtom(o1), _atom2 |-> LastAtom(o2), _order |-> self._order,
             _periodicity |-> self._periodicity, attr |-> self.attr, _attr |-> self._attr])]

Bond_clone_SharesAtoms(o, bond, atom_map) ==
    LET self == o.bonds[bond]
        id1 == o.atoms[self._atom1].id
        id2 == o.atoms[self._atom2].id
    IN  [o EXCEPT !.bonds = Append(@,
            [_atom1 |-> IF id1 \in DOMAIN atom_map THEN atom_map[id1] ELSE self._atom1,
             _atom2 |-> IF id2 \in DOMAIN atom_map THEN atom_map[id2] ELSE self._atom2,
             _order |-> self._order, _periodicity |-> self._periodicity,
             attr |-> self.attr, _attr |-> None])]

\* bond.clone(atom_map): atom_map is a function from atom ids to atoms, empty
\* for None.  Both default arguments of atom_map.get are evaluated, so both
\* atoms are cloned whether or not the clones are used.
Bond_clone(o, bond, atom_map) ==
    LET self == o.bonds[bond]
        public == PublicAttributes(self)
        id1 == o.atoms[self._atom1].id
        id2 == o.atoms[self._atom2].id
        o1 == Atom_clone(o, self._atom1)
        o2 == Atom_clone(o1, self._atom2)
        atom1 == IF id1 \in DOMAIN atom_map THEN atom_map[id1] ELSE LastAtom(o1)
        atom2 == IF id2 \in DOMAIN atom_map THEN atom_map[id2] ELSE LastAtom(o2)
    IN  [o2 EXCEPT !.bonds = Append(@,
            [_atom1 |-> atom1, _atom2 |-> atom2, _order |-> self._order,
             _periodicity |-> self._periodicity, attr |-> public.attr,
             _attr |-> public._attr])]

\* A vertex: its id, position, incident edge ids in construction order,
\* periodic cell and custom-position flag.
VertexObject(id, position, edge_ids, cell, custom_position) ==
    [id |-> id, position |-> position, edge_ids |-> edge_ids, cell |-> cell,
     custom_position |-> custom_position, attr |-> None, _attr |-> None]

apply_scale_Add(o, vertex, s) ==
    [o EXCEPT !.vertices[vertex].position = Add(@, <<s, s, s>>)]

\* vertex.apply_scale(s)
apply_scale(o, vertex, s) ==
    [o EXCEPT !.vertices[vertex].position = Times(s, @)]

\* vertex.clone(): the clone is LastVertex of the heap returned.
Vertex_clone(o, vertex) ==
    LET self == o.vertices[vertex]
    IN  [o EXCEPT !.vertices = Append(@,
            [VertexObject(self.id, self.position, self.edge_ids, self.cell,
                          self.custom_position) EXCEPT !.attr = self.attr])]

\* The vertices, bond arguments, atom maps and scale factors the calls are
\* drawn over.
VertexInputs ==
    {VertexObject(0, p, e, c, f) :
        p \in {<<1, -2, 3>>, <<0, 1, 0>>}, e \in {<<>>, <<2, 0>>},
        c \in {Zero, <<1, 0, -1>>}, f \in BOOLEAN}

CloneInputs ==
    {[vertex |-> VertexObject(0, <<1, -2, 3>>, <<2, 0>>, <<1, 0, -1>>, TRUE),
      order |-> 2, periodicity |-> <<1, 0, -1>>]}

BondArguments ==
    {[order |-> 1, periodicity |-> Zero], [order |-> 2, periodicity |-> <<1, 0, -1>>]}

\* The atom maps: none, one for the second atom of the bond (clone2 of the
\* docstring), one for both atoms, and one with a key that is no atom of the
\* bond.
AtomMaps == {<<>>, 5 :> li2, (0 :> li2) @@ (5 :> c0), 7 :> li2}

Scales == {-1, 1, 2}

Callers == {"scale", "clone", "atoms"}

\* What each caller starts from: a vertex to scale; a vertex, a bond of c0 and
\* c5, and the atom li2 for the atom maps; the atoms c0 and c5.
InitialHeaps(caller) ==
    CASE caller = "scale" ->
            {[atoms |-> <<>>, bonds |-> <<>>, vertices |-> <<vertex>>, held |-> {},
              atom_map |-> <<>>,
              caller |-> caller] : vertex \in VertexInputs}
      [] caller = "clone" ->
            {Bond_init([atoms |-> CallerAtoms, bonds |-> <<>>,
                        vertices |-> <<input.vertex>>, held |-> {c0, c5, li2},
                        atom_map |-> <<>>, caller |-> caller],
                       c0, c5, input.order, input.periodicity) :
                input \in CloneInputs}
      [] caller = "atoms" ->
            {[atoms |-> SubSeq(CallerAtoms, c0, c5), bonds |-> <<>>, vertices |-> <<>>,
              held |-> {c0, c5}, atom_map |-> <<>>, caller |-> caller]}

Call(op, self, arg, ret) ==
    [op |-> op, self |-> self, arg |-> arg, ret |-> ret, before |-> objects]

ObjectsInit ==
    /\ NoBuild
    /\ pc = "objects"
    /\ \E caller \in Callers : objects \in InitialHeaps(caller)
    /\ result = None

objectsFrame == <<topology, coord, connected, bonder_ids, atom_position_pairs, distances,
                  macro_mol, atom_coords, scale, bb_map, lk_map, i, error, calls,
                  previous, pc>>

Bond_call ==
    /\ pc = "objects" /\ Len(log) < MaxCalls
    /\ objects.caller \in {"atoms"}
    /\ \E args \in BondArguments :
          LET o == Bond_init(objects, c0, c5, args.order, args.periodicity)
          IN  /\ objects' = o
              /\ result' = Some(LastBond(o))
              /\ log' = Append(log, Call("Bond", 0, <<c0, c5>>, LastBond(o)))
    /\ UNCHANGED objectsFrame

dangerous_init_call ==
    /\ pc = "objects" /\ Len(log) < MaxCalls
    /\ objects.caller \in {"atoms"}
    /\ \E args \in BondArguments :
          LET o == dangerous_init(objects, c0, c5, args.order, args.periodicity)
          IN  /\ objects' = o
              /\ result' = Some(LastBond(o))
              /\ log' = Append(log, Call("dangerous_init", 0, <<c0, c5>>, LastBond(o)))
    /\ UNCHANGED objectsFrame

\* atom = bond.get_atom1(): the caller holds the atom returned.
get_atom1_call ==
    /\ pc = "objects" /\ Len(log) < MaxCalls
    /\ objects.caller \in {"atoms"}
    /\ \E bond \in DOMAIN objects.bonds :
          LET o == get_atom1(objects, bond)
          IN  /\ objects' = [o EXCEPT !.held = @ \cup {LastAtom(o)}]
              /\ result' = Some(LastAtom(o))
              /\ log' = Append(log, Call("get_atom1", bond, <<>>, LastAtom(o)))
    /\ UNCHANGED objectsFrame

get_atom2_call ==
    /\ pc = "objects" /\ Len(log) < MaxCalls
    /\ objects.caller \in {"atoms"}
    /\ \E bond \in DOMAIN objects.bonds :
          LET o == get_atom2(objects, bond)
          IN  /\ objects' = [o EXCEPT !.held = @ \cup {LastAtom(o)}]
              /\ result' = Some(LastAtom(o))
              /\ log' = Append(log, Call("get_atom2", bond, <<>>, LastAtom(o)))
    /\ UNCHANGED objectsFrame

\* The caller changes an atom it holds.
mutate_atom ==
    /\ pc = "objects" /\ Len(log) < MaxCalls
    /\ objects.caller \in {"atoms"}
    /\ \E atom \in objects.held :
          /\ objects' = [objects EXCEPT !.atoms[atom].charge = @ + 1]
          /\ log' = Append(log, Call("mutate", atom, <<>>, 0))
    /\ result' = None
    /\ UNCHANGED objectsFrame

\* bond.attr = 1; bond._attr = 2
annotate_bond ==
    /\ pc = "objects" /\ Len(log) < MaxCalls
    /\ objects.caller \in {"clone"}
    /\ \E bond \in DOMAIN objects.bonds :
          /\ objects.bonds[bond].attr = None
          /\ objects' = [objects EXCEPT !.bonds[bond].attr = Some(1),
                                        !.bonds[bond]._attr = Some(2)]
          /\ log' = Append(log, Call("annotate", bond, <<>>, 0))
    /\ result' = None
    /\ UNCHANGED objectsFrame

\* clone = bond.clone(atom_map): objects.atom_map is the dictionary the caller
\* passed, as the call left it.
Bond_clone_call ==
    /\ pc = "objects" /\ Len(log) < MaxCalls
    /\ objects.caller \in {"clone"}
    /\ \E bond \in DOMAIN objects.bonds, atom_map \in AtomMaps :
          LET o == Bond_clone([objects EXCEPT !.atom_map = atom_map], bond, atom_map)
          IN  /\ objects' = o
              /\ result' = Some(LastBond(o))
              /\ log' = Append(log, Call("Bond.clone", bond, atom_map, LastBond(o)))
    /\ UNCHANGED objectsFrame

apply_scale_call ==
    /\ pc = "objects" /\ Len(log) < MaxCalls
    /\ objects.caller \in {"scale"}
    /\ \E vertex \in DOMAIN objects.vertices, s \in Scales :
          /\ objects' = apply_scale(objects, vertex, s)
          /\ log' = Append(log, Call("apply_scale", vertex, <<s>>, 0))
    /\ result' = None
    /\ UNCHANGED objectsFrame

Vertex_clone_call ==
    /\ pc = "objects" /\ Len(log) < MaxCalls
    /\ objects.caller \in {"clone"}
    /\ \E vertex \in DOMAIN objects.vertices :
          LET o == Vertex_clone(objects, vertex)
          IN  /\ objects' = o
              /\ result' = Some(LastVertex(o))
              /\ log' = Append(log, Call("Vertex.clone", vertex, <<>>, LastVertex(o)))
    /\ UNCHANGED objectsFrame

\* vertex.attr = 1; vertex._attr = 2
annotate_vertex ==
    /\ pc = "objects" /\ Len(log) < MaxCalls
    /\ objects.caller \in {"clone"}
    /\ \E vertex \in DOMAIN objects.vertices :
          /\ objects.vertices[vertex].attr = None
          /\ objects' = [objects EXCEPT !.vertices[vertex].attr = Some(1),
                                        !.vertices[vertex]._attr = Some(2)]
          /\ log' = Append(log, Call("annotate_vertex", vertex, <<>>, 0))
    /\ result' = None
    /\ UNCHANGED objectsFrame

ObjectsNext ==
    \/ Bond_call
    \/ dangerous_init_call
    \/ get_atom1_call
    \/ get_atom2_call
    \/ mutate_atom
    \/ annotate_bond
    \/ Bond_clone_call
    \/ apply_scale_call
    \/ Vertex_clone_call
    \/ annotate_vertex

SpecObjects == ObjectsInit /\ [][ObjectsNext]_vars

\* The heap after the k-th call.
After(k) == IF k = Len(log) THEN objects ELSE log[k + 1].before

\* The calls of the operation `op`, as indexes into log.
CallsOf(op) == {k \in DOMAIN log : log[k].op = op}

\* The attributes of a vertex that scaling is to keep.
Unscaled(vertex) ==
    <<vertex.id, vertex.edge_ids, vertex.cell, vertex.custom_position>>

\* C17: after vertex.apply_scale(s), get_position() is s times the position
\* before the call; apply_scale(1) leaves the position unchanged;
\* apply_scale(a) followed by apply_scale(b) gives the position of
\* apply_scale(a*b); the id, edge ids, cell and custom-position flag of the
\* vertex are unchanged.
C17_ApplyScale ==
    pc = "objects" =>
        \A k \in CallsOf("apply_scale") :
            LET vertex == log[k].self
                s == log[k].arg[1]
                old == log[k].before.vertices[vertex]
                new == After(k).vertices[vertex]
            IN  /\ new.position = Times(s, old.position)
                /\ s = 1 => new.position = old.position
                /\ Unscaled(new) = Unscaled(old)
                /\ (k - 1 \in CallsOf("apply_scale") /\ log[k - 1].self = vertex) =>
                      new.position = Times(log[k - 1].arg[1] * s,
                                           log[k - 1].before.vertices[vertex].position)

\* Two scalings in a row of a vertex that is not at the origin, by factors
\* other than 1.
C17_Witness ==
    /\ pc = "objects"
    /\ \E k \in CallsOf("apply_scale") :
          /\ k - 1 \in CallsOf("apply_scale")
          /\ log[k - 1].self = log[k].self
          /\ log[k].arg[1] # 1 /\ log[k - 1].arg[1] # 1
          /\ log[k - 1].before.vertices[log[k].self].position # Zero
          /\ After(k).vertices[log[k].self].position
                # log[k - 1].before.vertices[log[k].self].position

\* The state of a vertex that its clone is to have.
VertexState(vertex) ==
    <<vertex.position, Len(vertex.edge_ids), vertex.edge_ids, vertex.cell>>

\* The state of a bond that its clone is to have: the ids of both atoms, the
\* order and the periodicity.
BondState(o, bond) ==
    <<o.atoms[o.bonds[bond]._atom1].id, o.atoms[o.bonds[bond]._atom2].id,
      o.bonds[bond]._order, o.bonds[bond]._periodicity>>

\* Nothing that existed before the k-th call was changed by it.
OriginalsUnchanged(k) ==
    LET old == log[k].before
        new == After(k)
    IN  /\ SubSeq(new.atoms, 1, Len(old.atoms)) = old.atoms
        /\ SubSeq(new.bonds, 1, Len(old.bonds)) = old.bonds
        /\ SubSeq(new.vertices, 1, Len(old.vertices)) = old.vertices

VertexCloneContract ==
    \A k \in CallsOf("Vertex.clone") :
        LET original == log[k].before.vertices[log[k].self]
            clone == After(k).vertices[log[k].ret]
        IN  /\ log[k].ret # log[k].self
            /\ VertexState(clone) = VertexState(original)
            /\ clone.attr = original.attr
            /\ clone._attr = None
            /\ OriginalsUnchanged(k)

BondCloneContract ==
    \A k \in CallsOf("Bond.clone") :
        LET original == log[k].before.bonds[log[k].self]
            clone == After(k).bonds[log[k].ret]
        IN  /\ log[k].ret # log[k].self
            /\ log[k].arg = <<>> =>
                  BondState(After(k), log[k].ret) = BondState(log[k].before, log[k].self)
            /\ clone._order = original._order
            /\ clone._periodicity = original._periodicity
            /\ clone.attr = original.attr
            /\ clone._attr = None
            /\ OriginalsUnchanged(k)

\* C18: the clone returned by clone() has the state of the original (a
\* Vertex: position, number of edges, edge ids in order, cell; a Bond: ids of
\* both atoms, order, periodicity), carries the public attribute a caller
\* added to the original and not the private one, and the original is
\* unchanged by cloning.
C18_CloneContract ==
    pc = "objects" => VertexCloneContract /\ BondCloneContract

\* An annotated bond was cloned with clone(), after an annotated vertex was.
C18_Witness ==
    /\ pc = "objects"
    /\ \E k \in CallsOf("Bond.clone") :
          /\ log[k].arg = <<>>
          /\ log[k].before.bonds[log[k].self]._attr # None
          /\ After(k).bonds[log[k].ret].attr # None
    /\ \E k \in CallsOf("Vertex.clone") :
          /\ log[k].before.vertices[log[k].self]._attr # None
          /\ After(k).vertices[log[k].ret].attr # None

\* The atoms a bond holds, as objects and as values.
BondAtoms(o, bond) == {o.bonds[bond]._atom1, o.bonds[bond]._atom2}

BondAtomValues(o, bond) ==
    <<o.atoms[o.bonds[bond]._atom1], o.atoms[o.bonds[bond]._atom2]>>

\* C20: a bond made by Bond(atom1, atom2, ...) holds no atom object the caller
\* holds, get_atom1() and get_atom2() return new objects equal to the bond's
\* atoms, and whatever the caller does to the atoms it holds, the atoms of the
\* bond stay as they were when it was made; a bond made by
\* Bond.dangerous_init holds exactly the atom objects it was given.
C20_Encapsulation ==
    pc = "objects" =>
        /\ \A k \in CallsOf("Bond") :
              /\ BondAtoms(objects, log[k].ret) \cap objects.held = {}
              /\ BondAtomValues(objects, log[k].ret)
                    = <<log[k].before.atoms[log[k].arg[1]],
                        log[k].before.atoms[log[k].arg[2]]>>
        /\ \A k \in CallsOf("get_atom1") :
              /\ log[k].ret \notin DOMAIN log[k].before.atoms
              /\ After(k).atoms[log[k].ret]
                    = log[k].before.atoms[log[k].before.bonds[log[k].self]._atom1]
        /\ \A k \in CallsOf("get_atom2") :
              /\ log[k].ret \notin DOMAIN log[k].before.atoms
              /\ After(k).atoms[log[k].ret]
                    = log[k].before.atoms[log[k].before.bonds[log[k].self]._atom2]
        /\ \A k \in CallsOf("dangerous_init") :
              /\ objects.bonds[log[k].ret]._atom1 = log[k].arg[1]
              /\ objects.bonds[log[k].ret]._atom2 = log[k].arg[2]

\* The caller changed a constructor argument and an atom that a getter
\* returned, both of a bond made by Bond(atom1, atom2, ...).
C20_Witness ==
    /\ pc = "objects"
    /\ \E k \in CallsOf("Bond"), g \in CallsOf("get_atom1"),
          m1 \in CallsOf("mutate"), m2 \in CallsOf("mutate") :
          /\ k < g /\ g < m1 /\ k < m2
          /\ log[g].self = log[k].ret
          /\ log[m1].self = log[g].ret
          /\ log[m2].self = log[k].arg[1]

-----------------------------------------------------------------------------
\* BuildingBlock.to_dict and BuildingBlock.init_from_dict
\* (molecules/building_block.py).
\*
\* A building block is an object of the heap, in objects.blocks, holding its
\* atoms and bonds by reference, its position matrix as Molecule_ keeps it
\* (one row per axis), its identity key and its functional groups (each the
\* ids of its atoms and of its bonders).

Transpose(m) ==
    IF m = <<>> THEN <<>>
    ELSE [c \in 1..Len(m[1]) |-> [r \in 1..Len(m) |-> m[r][c]]]

\* molecule.get_position_matrix(): one row per atom.
get_position_matrix(self) == Transpose(self._position_matrix)

\* repr of an atom, and the atom that evaluating it constructs.
Atom_repr(atom) == <<"Atom", atom.id, atom.charge>>

Atom_eval(text) == [id |-> text[2], charge |-> text[3]]

\* hasattr(bond, name) for a public name: a Bond has the attributes that
\* __init__, dangerous_init or clone set, which are all private, and the
\* public ones a caller added.
HasAttribute(bond, name) == name = "attr" /\ bond.attr # None

\* The clone that to_dict makes of a bond of the block.
to_dict_clone(o, bond) ==
    LET cloned == Bond_clone(o, bond, <<>>)
    IN  cloned.bonds[LastBond(cloned)]

\* block.to_dict(): the dictionary, or the exception raised.  The loop over
\* the bonds reads clone.atom1 and clone.atom2 of the clone of each bond.
to_dict(o, block) ==
    LET self == o.blocks[block]
    IN  IF \E k \in DOMAIN self._bonds :
              \/ ~HasAttribute(to_dict_clone(o, self._bonds[k]), "atom1")
              \/ ~HasAttribute(to_dict_clone(o, self._bonds[k]), "atom2")
        THEN [raised |-> "AttributeError", value |-> None]
        ELSE [raised |-> "None",
              value |-> [class |-> "BuildingBlock",
                         functional_groups |-> self._functional_groups,
                         position_matrix |-> get_position_matrix(self),
                         atoms |-> [k \in DOMAIN self._atoms |->
                                       Atom_repr(o.atoms[self._atoms[k]])],
                         bonds |-> [k \in DOMAIN self._bonds |->
                                       BondState(o, self._bonds[k])],
                         identity_key |-> self._identity_key]]

\* BuildingBlock.init_from_dict(molecule_dict) for a dictionary without
\* bonds: the heap with the new atoms and, last in blocks, the new block.
init_from_dict(o, molecule_dict) ==
    LET n == Len(o.atoms)
        atoms == [k \in DOMAIN molecule_dict.atoms |-> Atom_eval(molecule_dict.atoms[k])]
    IN  [o EXCEPT !.atoms = @ \o atoms,
                  !.blocks = Append(@,
                      [_identity_key |-> molecule_dict.identity_key,
                       _position_matrix |-> Transpose(molecule_dict.position_matrix),
                       _atoms |-> [k \in DOMAIN atoms |-> n + k],
                       _bonds |-> <<>>,
                       _functional_groups |-> molecule_dict.functional_groups])]

\* The molecules the building blocks are made of: one or two atoms, no bond
\* or one bond between the first and the last atom, with or without a
\* functional group; the identity key stands for the canonical SMILES.
AtomPoints == {<<0, 0, 0>>, <<1, 0, 0>>, <<0, 2, 0>>, <<1, 2, 3>>}

MaxAtoms == 2

BondOrders == {1, 2}

Molecules ==
    {[positions |-> ps, orders |-> os, functional_groups |-> fgs,
      identity_key |-> <<Len(ps), os>>] :
        ps \in UNION {[1..n -> AtomPoints] : n \in 1..MaxAtoms},
        os \in {<<>>} \cup {<<order>> : order \in BondOrders},
        fgs \in {<<>>, << [atoms |-> <<0>>, bonders |-> <<0>>] >>}}

\* BuildingBlock._init_from_rdkit_mol: the atoms, then
\* Bond(atoms[begin], atoms[end], order) for the bond, then the block.
BuildingBlock_init(molecule) ==
    LET n == Len(molecule.positions)
        atoms == [k \in 1..n |-> Atom(k - 1)]
        heap == [atoms |-> atoms, bonds |-> <<>>, vertices |-> <<>>, held |-> {},
                 caller |-> "dict", blocks |-> <<>>]
        bonded == IF molecule.orders = <<>> THEN heap
                  ELSE Bond_init(heap, 1, n, molecule.orders[1], Zero)
    IN  [bonded EXCEPT !.blocks = Append(@,
            [_identity_key |-> molecule.identity_key,
             _position_matrix |-> Transpose(molecule.positions),
             _atoms |-> [k \in 1..n |-> k],
             _bonds |-> [k \in DOMAIN bonded.bonds |-> k],
             _functional_groups |-> molecule.functional_groups])]

MoleculeInit ==
    /\ NoBuild
    /\ pc = "molecule"
    /\ \E molecule \in Molecules :
          /\ Len(molecule.positions) > 1 \/ molecule.orders = <<>>
          /\ objects = BuildingBlock_init(molecule)
    /\ result = None

\* molecule_dict = block.to_dict()
to_dict_call ==
    /\ pc = "molecule"
    /\ LET returned == to_dict(objects, 1)
       IN  /\ result' = Some(returned)
           /\ pc' = IF returned.raised = "None" THEN "to_dict returned"
                    ELSE "to_dict raised"
           /\ objects' = IF objects.blocks[1]._bonds = <<>> THEN objects
                         ELSE Bond_clone(objects, objects.blocks[1]._bonds[1], <<>>)
    /\ UNCHANGED buildVars

\* BuildingBlock.init_from_dict(molecule_dict)
init_from_dict_call ==
    /\ pc = "to_dict returned"
    /\ result[1].value.bonds = <<>>
    /\ objects' = init_from_dict(objects, result[1].value)
    /\ pc' = "init_from_dict returned"
    /\ UNCHANGED <<buildVars, result>>

MoleculeNext == to_dict_call \/ init_from_dict_call

SpecMolecule == MoleculeInit /\ [][MoleculeNext]_vars

\* What of a building block is to survive the round trip: its atoms, its
\* bonds (atom ids, order, periodicity), its position matrix, its identity
\* key and its functional groups.
BlockState(o, block) ==
    LET self == o.blocks[block]
    IN  [atoms |-> [k \in DOMAIN self._atoms |-> o.atoms[self._atoms[k]]],
         bonds |-> [k \in DOMAIN self._bonds |-> BondState(o, self._bonds[k])],
         position_matrix |-> get_position_matrix(self),
         identity_key |-> self._identity_key,
         functional_groups |-> self._functional_groups]

\* C19: for every building block m, m.to_dict() succeeds and yields a
\* dictionary with atoms, bonds, position matrix and identity key, and
\* BuildingBlock.init_from_dict(m.to_dict()) succeeds and yields a molecule
\* with the same atoms, bonds, position matrix, identity key and functional
\* groups as m.
C19_DictRoundTrip ==
    /\ pc # "to_dict raised"
    /\ pc = "to_dict returned" =>
          /\ result[1].value.atoms = [k \in DOMAIN objects.blocks[1]._atoms |->
                Atom_repr(objects.atoms[objects.blocks[1]._atoms[k]])]
          /\ result[1].value.bonds = BlockState(objects, 1).bonds
          /\ result[1].value.position_matrix = BlockState(objects, 1).position_matrix
          /\ result[1].value.identity_key = BlockState(objects, 1).identity_key
    /\ pc = "init_from_dict returned" => BlockState(objects, 2) = BlockState(objects, 1)

\* What the clone made by the k-th call holds for the endpoint that is
\* `atom` in the original: the mapped object, or a new atom equal to `atom`.
ClonedEndpoint(k, atom, held) ==
    LET old == log[k].before
        id == old.atoms[atom].id
    IN  IF id \in DOMAIN log[k].arg
        THEN held = log[k].arg[id]
        ELSE /\ held \notin DOMAIN old.atoms
             /\ After(k).atoms[held] = old.atoms[atom]

\* C21: bond.clone(atom_map) holds, for each endpoint, the object
\* atom_map[id] when the endpoint's id is a key of atom_map and a fresh copy
\* of the original's atom otherwise; the clone has the order and periodicity
\* of the original; atom_map and the original bond are not modified.
C21_CloneAtomMap ==
    pc = "objects" =>
        \A k \in CallsOf("Bond.clone") :
            LET original == log[k].before.bonds[log[k].self]
                clone == After(k).bonds[log[k].ret]
            IN  /\ ClonedEndpoint(k, original._atom1, clone._atom1)
                /\ ClonedEndpoint(k, original._atom2, clone._atom2)
                /\ clone._order = original._order
                /\ clone._periodicity = original._periodicity
                /\ After(k).atom_map = log[k].arg
                /\ After(k).bonds[log[k].self] = original
                /\ After(k).atoms[original._atom1] = log[k].before.atoms[original._atom1]
                /\ After(k).atoms[original._atom2] = log[k].before.atoms[original._atom2]

\* A bond was cloned with a map for one of its atoms only, and one with a map
\* for both.
C21_Witness ==
    /\ pc = "objects"
    /\ \E k \in CallsOf("Bond.clone") :
          /\ DOMAIN log[k].arg = {5}
          /\ After(k).bonds[log[k].ret]._atom2 = li2
          /\ After(k).bonds[log[k].ret]._atom1 \notin DOMAIN log[k].before.atoms
    /\ \E k \in CallsOf("Bond.clone") :
          /\ DOMAIN log[k].arg = {0, 5}
          /\ After(k).bonds[log[k].ret]._atom1 = li2

\* C22: get_bonder_plane_normal raises ValueError and returns no normal
\* whenever the selected fg_ids, or all functional groups of the block when
\* fg_ids is None, number fewer than 3, and it leaves the building block
\* unchanged.
C22_TooFewPoints ==
    (/\ pc = "geometry"
     /\ objects.kind = "BuildingBlock"
     /\ previous # None
     /\ (IF previous[1].fg_ids = None THEN Len(previous[1].bonders)
         ELSE Len(previous[1].fg_ids[1])) < 3)
    => /\ result = None
       /\ error.type = "ValueError"
       /\ objects = previous[1]

\* The call was refused for a block of three functional groups of which two
\* were selected.
C22_Witness ==
    /\ pc = "geometry"
    /\ objects.kind = "BuildingBlock"
    /\ error.type = "ValueError"
    /\ Len(objects.bonders) = 3
    /\ objects.fg_ids # None /\ Len(objects.fg_ids[1]) = 2


----------------------------------------------------------------------------
(* The order of the rigid transforms of a placement *)

\* The order the rotation onto the target, the translation onto the target
\* centroid and the rotation about the fixed axis are said to be applied in.
AlignTranslateMinimize == <<"set_orientation2", "set_bonder_centroid", "minimize_theta2">>

\* C23 as stated: every placement, on a vertex or on an edge, aligns the block,
\* then translates it onto the target centroid, and last rotates it about the
\* fixed axis.
C23_SameOrder ==
    \A k \in DOMAIN macro_mol.placements :
        macro_mol.placements[k].transforms = AlignTranslateMinimize

\* C23: a placement on a vertex aligns the block, translates it, and last
\* rotates it about the fixed axis; a placement on an edge aligns the linker,
\* rotates it about the fixed axis, and translates it last.
C23_TransformOrder ==
    \A k \in DOMAIN macro_mol.placements :
        LET placement == macro_mol.placements[k]
        IN  IF placement.position \in Range(topology.positions_B)
            THEN placement.transforms
                     = <<"set_orientation2", "minimize_theta2", "set_bonder_centroid">>
            ELSE placement.transforms = AlignTranslateMinimize

C23_Witness ==
    /\ pc = "placed"
    /\ \E k, l \in DOMAIN macro_mol.placements :
          /\ macro_mol.placements[k].position \in Range(topology.positions_A)
          /\ macro_mol.placements[l].position \in Range(topology.positions_B)
          /\ macro_mol.placements[l].transforms[3] = "set_bonder_centroid"

----------------------------------------------------------------------------
(* The position a placement starts from *)

\* C24: within one call of place_mols, every placement of a building block
\* starts from the position matrix the block had when place_mols was entered.
C24_StartFromEntry ==
    \A k \in DOMAIN macro_mol.placements :
        macro_mol.placements[k].start
            = macro_mol.entered[macro_mol.placements[k].bb + 1]

\* The same block is placed a second time in a build, and in a second build
\* after a first one moved it.
C24_Witness ==
    /\ previous # None
    /\ \E k, l \in DOMAIN macro_mol.placements :
          /\ k < l
          /\ macro_mol.placements[k].bb = macro_mol.placements[l].bb
          /\ macro_mol.placements[l].start # <<>>


----------------------------------------------------------------------------
(* The atom ids place_mols stores on the positions *)

\* The ids of the atoms of the k-th fragment of macro_mol.mol that are tagged 'bonder'.
FragmentBonders(k) ==
    {macro_mol.mol[k].first + BuildingBlock(macro_mol.mol[k].bb).bonders[j] :
        j \in DOMAIN BuildingBlock(macro_mol.mol[k].bb).bonders}

\* C25: after place_mols, the bonder_ids of each placed position are atom ids
\* of macro_mol.mol and bonder atoms of the fragment placed on that position,
\* the bonder_ids of two different positions are disjoint, and the fragments
\* take the atom ids 0..n-1 with no gap and no overlap, in placement order.
C25_BonderIds ==
    pc = "placed" =>
        /\ \A position \in LoopedPositions :
              \E k \in DOMAIN macro_mol.mol :
                  /\ macro_mol.mol[k].position = position
                  /\ Range(bonder_ids[position]) \subseteq FragmentBonders(k)
                  /\ Range(bonder_ids[position]) \subseteq 0..(NumAtoms(macro_mol.mol) - 1)
                  /\ Cardinality(Range(bonder_ids[position])) = Len(bonder_ids[position])
        /\ \A p, q \in DOMAIN bonder_ids :
              p # q => Range(bonder_ids[p]) \cap Range(bonder_ids[q]) = {}
        /\ \A k \in DOMAIN macro_mol.mol :
              macro_mol.mol[k].first
                  = IF k = 1 THEN 0
                    ELSE macro_mol.mol[k - 1].first
                            + BuildingBlock(macro_mol.mol[k - 1].bb).natoms

\* Three fragments are placed, and the last position's bonder ids lie past the
\* atoms of the first two.
C25_Witness ==
    /\ pc = "placed"
    /\ Len(macro_mol.mol) >= 3
    /\ \E p, q \in LoopedPositions :
          /\ p # q
          /\ bonder_ids[p] # <<>> /\ bonder_ids[q] # <<>>
          /\ \A a \in Range(bonder_ids[q]) : a >= macro_mol.mol[3].first


----------------------------------------------------------------------------
(* The size of the pairing of a vertex *)

\* C26: after pair_bonders_with_positions(vertex), atom_position_pairs of the
\* vertex holds min(number of distinct bonder ids, number of distinct connected
\* positions) pairs and nothing of what it held before: with at least as many
\* bonder atoms as connected positions, every connected position is in
\* exactly one pair.
C26_MaximalPairing ==
    \A vertex \in DOMAIN atom_position_pairs :
        <<"pair", vertex>> \in Range(log) =>
            LET pairs == atom_position_pairs[vertex]
                ids == Range(bonder_ids[vertex])
                positions == Range(connected[vertex])
            IN  /\ Len(pairs) = Min(Cardinality(ids), Cardinality(positions))
                /\ Cardinality(ids) >= Cardinality(positions) =>
                      \A position \in positions :
                          Cardinality({k \in DOMAIN pairs : pairs[k][2] = position}) = 1

\* A vertex that had pairs from the build before is paired again, and a vertex
\* has more bonder atoms than connected positions.
C26_Witness ==
    /\ previous # None
    /\ \E vertex \in DOMAIN atom_position_pairs :
          /\ <<"pair", vertex>> \in Range(log)
          /\ previous[1].atom_position_pairs[vertex] # <<>>
          /\ Cardinality(Range(bonder_ids[vertex])) > Cardinality(Range(connected[vertex]))


----------------------------------------------------------------------------
(* Where the atoms of a new bond sit *)

\* The positions whose bonder_ids hold the atom.
PositionsOf(atom_id) == {p \in DOMAIN bonder_ids : atom_id \in Range(bonder_ids[p])}

\* C27: every bond join_mols adds has its first atom among the bonder atoms of
\* a position P of positions_A and its second atom among the bonder atoms of
\* a position Q of P.connected, and no position holds both atoms.
C27_BondsAlongConnections ==
    pc = "joined" =>
        \A k \in DOMAIN macro_mol.bonds :
            LET bond == macro_mol.bonds[k]
            IN  /\ \E P \in Range(topology.positions_A) :
                      \E Q \in Range(connected[P]) :
                          /\ P # Q
                          /\ P \in PositionsOf(bond.atom1)
                          /\ Q \in PositionsOf(bond.atom2)
                /\ PositionsOf(bond.atom1) \cap PositionsOf(bond.atom2) = {}
                /\ \A P \in PositionsOf(bond.atom1) : \A Q \in PositionsOf(bond.atom2) :
                      Q \in Range(connected[P]) \/ P \in Range(connected[Q])

\* Bonds were added, toward an edge and, in another build, between two vertices.
C27_Witness ==
    /\ pc = "joined"
    /\ Len(macro_mol.bonds) >= 3
    /\ \E k \in DOMAIN macro_mol.bonds :
          PositionsOf(macro_mol.bonds[k].atom2) \cap Range(topology.positions_B) # {}


----------------------------------------------------------------------------
(* Bonds and the atom-to-position pairings *)

\* (atom, position) is a pair of atom_position_pairs of the position P.
PairedToward(P, atom, position) == <<atom, position>> \in Range(atom_position_pairs[P])

\* C28: an atom a of P is bonded to an atom b of Q only when a is
\* paired with Q and, where Q has pairs of its own, b is paired with P; and
\* every atom paired with a position that keeps an unbonded bonder atom is
\* bonded to an atom of that position.
C28_BothPairings ==
    pc = "joined" =>
        /\ \A k \in DOMAIN NewBonds :
              \A P \in PositionsOf(NewBonds[k].atom1) : \A Q \in PositionsOf(NewBonds[k].atom2) :
                  /\ PairedToward(P, NewBonds[k].atom1, Q)
                  /\ atom_position_pairs[Q] # <<>> => PairedToward(Q, NewBonds[k].atom2, P)
        /\ \A P \in Range(topology.positions_A) : \A j \in DOMAIN atom_position_pairs[P] :
              LET a == atom_position_pairs[P][j][1]
                  Q == atom_position_pairs[P][j][2]
              IN  (\E b \in Range(bonder_ids[Q]) : Unbonded(b)) =>
                      \E k \in DOMAIN NewBonds :
                          /\ a \in Endpoints(NewBonds[k])
                          /\ Endpoints(NewBonds[k]) \cap Range(bonder_ids[Q]) # {}


----------------------------------------------------------------------------
(* The graph constructors: Vertex(...), Vertex.vertex_init, Edge(...) and     *)
(* NoLinkerCageTopology(...), which calls connect()                           *)

\* The most position objects a graph is grown to, and the most topology
\* instances made.
MaxPositions == 6
MaxInstances == 3

\* The vertices made with Vertex(x, y, z) before anything is connected.
GraphVertices == <<XYZ(0, 0, 0), XYZ(6, 0, 0), XYZ(0, 6, 0), XYZ(0, 0, 6), XYZ(6, 6, 6)>>

\* Two topology classes over those vertices: their `connections` attributes.
GraphClasses ==
    [Pair |-> [connections |-> << <<1, 2>> >>],
     Triangle |-> [connections |-> << <<3, 4>>, <<4, 5>>, <<3, 5>> >>]]

\* centroid(*coords): the mean of the coordinates (whole numbers here).
centroid(coords) ==
    LET total == VecSum(coords)
    IN  <<total[1] \div Len(coords), total[2] \div Len(coords), total[3] \div Len(coords)>>

\* The tuples of vertices passed to Edge and to vertex_init: two or three
\* different vertices in any order, taken from the two vertices of Pair and
\* the first vertex of Triangle.
VertexTuples(n) ==
    {t \in [1..n -> {1, 2, 3}] : \A j, k \in 1..n : j # k => t[j] # t[k]}

GraphInit ==
    /\ topology = [class |-> "graph",
                   is_edge |-> [p \in DOMAIN GraphVertices |-> FALSE],
                   custom_position |-> [p \in DOMAIN GraphVertices |-> TRUE],
                   connected |-> [cls \in DOMAIN GraphClasses |-> FALSE]]
    /\ coord = GraphVertices
    /\ connected = [p \in DOMAIN GraphVertices |-> <<>>]
    /\ bonder_ids = [p \in DOMAIN GraphVertices |-> <<>>]
    /\ atom_position_pairs = [p \in DOMAIN GraphVertices |-> <<>>]
    /\ distances = [p \in DOMAIN GraphVertices |-> <<>>]
    /\ macro_mol = EmptyMol
    /\ atom_coords = <<>>
    /\ scale = 1
    /\ bb_map = <<>>
    /\ lk_map = <<>>
    /\ i = 0
    /\ pc = "graph"
    /\ error = NoError
    /\ log = <<>>
    /\ calls = <<>>
    /\ previous = None
    /\ objects = [kind |-> "None"]
    /\ result = None

graphFrame == <<macro_mol, atom_coords, scale, bb_map, lk_map, pc, error, calls,
                previous, objects, result>>

\* Vertex.__init__ for a new object, then `obj.connected.extend(vertices)` and
\* `v.connected.append(obj)` for every v of vertices.
NewPosition(vertices, is_edge) ==
    LET obj == Len(coord) + 1
    IN  /\ coord' = Append(coord, centroid([k \in DOMAIN vertices |-> coord[vertices[k]]]))
        /\ connected' =
               [p \in DOMAIN connected \cup {obj} |->
                   IF p = obj THEN vertices
                   ELSE connected[p]
                            \o [k \in 1..Cardinality({j \in DOMAIN vertices : vertices[j] = p})
                                  |-> obj]]
        /\ bonder_ids' = Append(bonder_ids, <<>>)
        /\ atom_position_pairs' = Append(atom_position_pairs, <<>>)
        /\ distances' = Append(distances, <<>>)
        /\ topology' = [topology EXCEPT !.is_edge = Append(@, is_edge),
                                        !.custom_position = Append(@, FALSE)]

\* Vertex.vertex_init(*vertices)
vertex_init(vertices) ==
    /\ pc = "graph"
    /\ Len(coord) < MaxPositions
    /\ NewPosition(vertices, FALSE)
    /\ log' = Append(log, <<"vertex_init", vertices>>)
    /\ UNCHANGED <<graphFrame, i>>

\* Edge(v1, v2)
Edge_init(v1, v2) ==
    /\ pc = "graph"
    /\ Len(coord) < MaxPositions
    /\ NewPosition(<<v1, v2>>, TRUE)
    /\ log' = Append(log, <<"Edge", <<v1, v2>> >>)
    /\ UNCHANGED <<graphFrame, i>>

AlreadyConnected_Never(cls) == FALSE

\* getattr(cls, 'connected', False)
AlreadyConnected(cls) == topology.connected[cls]

RECURSIVE connect(_, _)
\* The loop of connect() over cls.connections: the `connected` lists afterwards.
connect(connections, lists) ==
    IF connections = <<>> THEN lists
    ELSE LET v1 == Head(connections)[1]
             v2 == Head(connections)[2]
             appended == [lists EXCEPT ![v1] = Append(@, v2)]
         IN  connect(Tail(connections), [appended EXCEPT ![v2] = Append(@, v1)])

\* cls(): NoLinkerCageTopology.__init__ stores its arguments and calls connect().
NoLinkerCageTopology_init(cls) ==
    /\ pc = "graph"
    /\ i < MaxInstances
    /\ i' = i + 1
    /\ connected' = IF AlreadyConnected(cls) THEN connected
                    ELSE connect(GraphClasses[cls].connections, connected)
    /\ topology' = [topology EXCEPT !.connected[cls] = TRUE]
    /\ log' = Append(log, <<"instance", cls>>)
    /\ UNCHANGED <<graphFrame, coord, bonder_ids, atom_position_pairs, distances>>

GraphNext ==
    \/ \E vertices \in VertexTuples(2) \cup VertexTuples(3) : vertex_init(vertices)
    \/ \E vertices \in VertexTuples(2) : Edge_init(vertices[1], vertices[2])
    \/ \E cls \in DOMAIN GraphClasses : NoLinkerCageTopology_init(cls)

SpecGraph == GraphInit /\ [][GraphNext]_vars

\* How many times v occurs in u.connected.
Occurrences(u, v) == Cardinality({k \in DOMAIN connected[u] : connected[u][k] = v})

\* How many times the classes instantiated so far list the connection of u and v.
Listed(u, v) ==
    Sum([n \in 1..Len(log) |->
           IF log[n][1] = "instance"
                 /\ \A m \in 1..(n - 1) : log[m] # log[n]
           THEN Cardinality({k \in DOMAIN GraphClasses[log[n][2]].connections :
                                GraphClasses[log[n][2]].connections[k] \in {<<u, v>>, <<v, u>>}})
           ELSE 0])

\* C29: after any sequence of Edge(...), Vertex.vertex_init(...) and topology
\* instantiations, v occurs in u.connected as many times as u occurs in
\* v.connected, for all positions u and v; and two vertices are connected as
\* many times as the connections of the instantiated classes list them,
\* however many instances of a class were made.
C29_SymmetricConnectivity ==
    pc = "graph" =>
        /\ \A u, v \in DOMAIN connected : Occurrences(u, v) = Occurrences(v, u)
        /\ \A u, v \in DOMAIN GraphVertices : u # v => Occurrences(u, v) = Listed(u, v)

\* A class was instantiated twice, and an edge and a vertex_init vertex were
\* made on connected vertices.
C29_Witness ==
    /\ pc = "graph"
    /\ \E m, n \in DOMAIN log : m < n /\ log[m][1] = "instance" /\ log[n] = log[m]
    /\ \E n \in DOMAIN log : log[n][1] = "Edge"
    /\ Len(coord) > Len(GraphVertices)
    /\ \E u, v \in DOMAIN GraphVertices : Occurrences(u, v) > 0 /\ Occurrences(u, Len(coord)) > 0


----------------------------------------------------------------------------
(* The functional groups Bromo, PrimaryAmino, Thiol and Thioacid *)

\* The Atom class offers atom.id, atom.get_id() or both: bond.py calls
\* get_id(), building_block.py reads .id.
AtomInterfaces == {"id", "get_id", "both"}

\* The parameters of __init__ that are atoms, in order.
GroupAtoms ==
    [Bromo |-> <<"bromine", "atom">>,
     PrimaryAmino |-> <<"nitrogen", "hydrogen1", "hydrogen2", "atom">>,
     Thiol |-> <<"sulfur", "hydrogen", "atom">>,
     Thioacid |-> <<"carbon", "oxygen", "sulfur", "hydrogen", "atom">>]

\* How __init__ reads the id of an atom: `a.id` or `a.get_id()`.
GroupIdAccess ==
    [Bromo |-> "id", PrimaryAmino |-> "get_id", Thiol |-> "id", Thioacid |-> "id"]

\* What __init__ looks its own atoms up in atom_map by: the id
\* (`atom_map[bromine.id]`) or the atom object (`atom_map[sulfur]`).
GroupLookup ==
    [Bromo |-> "id", PrimaryAmino |-> "id", Thiol |-> "atom", Thioacid |-> "atom"]

\* The caller's atoms, with pairwise distinct ids.
GroupCallerAtoms == <<Atom(3), Atom(7), Atom(1), Atom(4), Atom(9)>>

AttributeError(name) == [type |-> "AttributeError", args |-> <<name>>]

\* The exception cls.__init__ raises for these arguments, or NoError: reading
\* an id the Atom class does not offer, or looking an Atom object up in a
\* dictionary whose keys are ids.
Group_init_error(o, cls, atoms) ==
    IF o.interface \notin {GroupIdAccess[cls], "both"}
    THEN AttributeError(GroupIdAccess[cls])
    ELSE IF GroupLookup[cls] = "atom" THEN KeyError(atoms[1])
    ELSE NoError

RECURSIVE CloneAll(_, _)
\* x.clone() for every atom of the sequence, in order: the heap afterwards.
CloneAll(o, atoms) ==
    IF atoms = <<>> THEN o ELSE CloneAll(Atom_clone(o, Head(atoms)), Tail(atoms))

\* cls(*atoms, bonders, deleters) that returns: atom_map holds a clone per
\* atom under its id; the attributes, the bonders and the deleters are taken
\* from atom_map; FunctionalGroup_._init stores atoms, bonders and deleters.
\* The new group is the last of o.groups in the heap returned.
Group_init(o, cls, atoms, bonders, deleters) ==
    LET cloned == CloneAll(o, atoms)
        atom_map == [id \in {o.atoms[atoms[k]].id : k \in DOMAIN atoms} |->
                        Len(o.atoms)
                            + CHOOSE k \in DOMAIN atoms : o.atoms[atoms[k]].id = id]
        own(a) == atom_map[o.atoms[a].id]
    IN  [cloned EXCEPT !.groups =
            Append(@, [class |-> cls,
                       attributes |-> [k \in DOMAIN atoms |-> own(atoms[k])],
                       _atoms |-> [k \in DOMAIN atoms |-> own(atoms[k])],
                       _bonders |-> [k \in DOMAIN bonders |-> own(bonders[k])],
                       _deleters |-> [k \in DOMAIN deleters |-> own(deleters[k])]])]

\* The bonders and the deleters a caller passes: drawn from the atoms passed.
GroupSelections(atoms) ==
    {<<>>, <<atoms[1]>>, <<atoms[Len(atoms)]>>, <<atoms[Len(atoms)], atoms[1]>>}

GroupsInit ==
    /\ NoBuild
    /\ pc = "groups"
    /\ \E interface \in AtomInterfaces :
          objects = [kind |-> "groups", interface |-> interface,
                     atoms |-> GroupCallerAtoms, groups |-> <<>>,
                     held |-> DOMAIN GroupCallerAtoms]
    /\ result = None

groupsFrame == <<topology, coord, connected, bonder_ids, atom_position_pairs, distances,
                 macro_mol, atom_coords, scale, bb_map, lk_map, i, calls, previous, pc>>

\* group = cls(*atoms, bonders=bonders, deleters=deleters)
Group_call ==
    /\ pc = "groups" /\ error = NoError /\ objects.groups = <<>>
    /\ \E cls \in DOMAIN GroupAtoms :
          LET atoms == [k \in DOMAIN GroupAtoms[cls] |-> k]
          IN  \E bonders \in GroupSelections(atoms), deleters \in GroupSelections(atoms) :
                  /\ Group_init_error(objects, cls, atoms) = NoError
                  /\ objects' = Group_init(objects, cls, atoms, bonders, deleters)
                  /\ result' = Some(1)
                  /\ log' = Append(log, Call(cls, 0, <<atoms, bonders, deleters>>, 1))
    /\ UNCHANGED <<groupsFrame, error>>

\* The same call when __init__ raises: no group is made.
Group_call_raises ==
    /\ pc = "groups" /\ error = NoError /\ objects.groups = <<>>
    /\ \E cls \in DOMAIN GroupAtoms :
          LET atoms == [k \in DOMAIN GroupAtoms[cls] |-> k]
          IN  \E bonders \in GroupSelections(atoms), deleters \in GroupSelections(atoms) :
                  /\ Group_init_error(objects, cls, atoms) # NoError
                  /\ error' = Group_init_error(objects, cls, atoms)
                  /\ log' = Append(log, Call(cls, 0, <<atoms, bonders, deleters>>, 0))
    /\ UNCHANGED <<groupsFrame, objects, result>>

\* group.get_<name>(): a clone of the attribute.
Group_get_call ==
    /\ pc = "groups" /\ error = NoError /\ Len(log) < MaxCalls
    /\ \E group \in DOMAIN objects.groups :
          \E k \in DOMAIN objects.groups[group].attributes :
              LET o == Atom_clone(objects, objects.groups[group].attributes[k])
              IN  /\ objects' = [o EXCEPT !.held = @ \cup {LastAtom(o)}]
                  /\ result' = Some(LastAtom(o))
                  /\ log' = Append(log, Call(GroupAtoms[objects.groups[group].class][k],
                                             group, <<k>>, LastAtom(o)))
    /\ UNCHANGED <<groupsFrame, error>>

GroupsNext == Group_call \/ Group_call_raises \/ Group_get_call

SpecGroups == GroupsInit /\ [][GroupsNext]_vars

\* C30: for Bromo, PrimaryAmino, Thiol and Thioacid, construction from atoms
\* with pairwise distinct ids, with bonders and deleters drawn from those
\* atoms, raises nothing; the group holds copies of the atoms, not the
\* caller's objects; each getter returns an atom with the id of the matching
\* constructor argument; and the stored bonders and deleters are the group's
\* own copies of the atoms with those ids.
C30_GroupConstruction ==
    pc = "groups" =>
        /\ error = NoError
        /\ \A n \in DOMAIN log :
              log[n].op \in DOMAIN GroupAtoms =>
                  LET group == objects.groups[log[n].ret]
                      before == log[n].before
                      atoms == log[n].arg[1]
                      bonders == log[n].arg[2]
                      deleters == log[n].arg[3]
                  IN  /\ Range(group._atoms) \cap DOMAIN before.atoms = {}
                      /\ \A k \in DOMAIN atoms :
                            objects.atoms[group.attributes[k]].id = before.atoms[atoms[k]].id
                      /\ Range(group._bonders) \cup Range(group._deleters)
                            \subseteq Range(group._atoms)
                      /\ \A k \in DOMAIN bonders :
                            objects.atoms[group._bonders[k]].id = before.atoms[bonders[k]].id
                      /\ \A k \in DOMAIN deleters :
                            objects.atoms[group._deleters[k]].id = before.atoms[deleters[k]].id
        /\ \A n \in DOMAIN log :
              log[n].op \notin DOMAIN GroupAtoms =>
                  /\ log[n].ret \notin DOMAIN log[n].before.atoms
                  /\ objects.atoms[log[n].ret].id
                        = log[n].before.atoms[log[1].arg[1][log[n].arg[1]]].id

====
